---- MODULE Spec2Model ----
(***************************************************************************)
(* A model of the transaction-submission layer of fh3nix-nitr0gen:         *)
(* BlockchainManager (src/src/managers/BlockchainManager.js), one instance *)
(* (one wallet) with its two per-network nonce counters, its gas-price and *)
(* gas-limit computations and the sendTransaction pipeline.                *)
(*                                                                         *)
(* Every await of sendTransaction on a network call is a suspension point, *)
(* so every sendTransaction call in flight has a position (pc) and the     *)
(* actions below are the continuations that run between two awaits.  An   *)
(* await on a value that is already there (getNonce returning the cached   *)
(* counter) only defers the continuation: the value was read when the call *)
(* was made, so that read is part of the invoking action.                  *)
(*                                                                         *)
(* Numbers: wei amounts are integers.  The source computes the adjusted    *)
(* price in IEEE doubles, Math.floor(Number(price) * multiplier); the      *)
(* model keeps multipliers as tenths (12 is 1.2) and computes the floor    *)
(* exactly, and it keeps the one effect of doubles that changes the        *)
(* outcome: a product that is Infinity or NaN makes BigInt() throw.        *)
(***************************************************************************)
EXTENDS Integers, Sequences, FiniteSets, TLC

\* ------------------------------------------------------------- bounds
\* awaited sendTransaction calls made in one behaviour
MaxCalls == 3
\* sendTransaction calls made in one behaviour of the concurrent specification
MaxRaceCalls == 2
\* resetNonce calls made in one behaviour
MaxResets == 1
\* the network's transaction count is one of LowCount .. LowCount + CountSpread
CountSpread == 1
\* wei per gwei.  It is 10^9 in web3; the model scales it down so that every
\* product stays inside TLC's 32-bit integers.  Prices stay exact wei amounts.
WeiPerGwei == 10
\* standalone getGasPrice calls take a raw network price of 0 .. MaxSmallPrice wei
MaxSmallPrice == 14
\* ... and a retryCount of 0 .. MaxRetry
MaxRetry == 2
\* standalone estimateGas calls get an estimate of 0 .. MaxEstimate
MaxEstimate == 11
\* getNonce, incrementNonce, resetNonce and sendTransaction calls made in one
\* behaviour of the specification of the nonce interface
MaxApiCalls == 3
\* the operations a wallet's run knows: the first MaxOps of the seven of index.js
MaxOps == 3
\* config.general.max_retries is unset or one of 0 .. MaxConfigRetries
MaxConfigRetries == 3
\* executeTransfer calls made on the stand-alone TokenTransfer in one behaviour
MaxTransfers == 3
\* options.maxRetries of a withErrorHandling call is one of 0 .. MaxHandlerRetries
MaxHandlerRetries == 3
\* the Fhenix balance before the bridge is one of 0 .. MaxBalance
MaxBalance == 1
\* transferToSelf makes 1 .. MaxTransferCount transfers in each of 1 .. MaxRepeatTimes cycles
MaxTransferCount == 3
MaxRepeatTimes == 2
\* executeContractOperations makes 1 .. MaxInteractions contract interactions
MaxInteractions == 5
\* sendTransaction calls made in one behaviour of the specification of the
\* transaction's fields
MaxTxCalls == 1
\* the calls made on the BlockchainManager in one behaviour of the
\* specification without resetNonce, getGasPrice, estimateGas and getBalance calls
\* included
MaxNonceCalls == 3
\* the nonce and the chain id a caller puts into its txObject
CallerNonce == 99
CallerChainId == 1

\* ---------------------------------------------------------- constants
\* this.currentNonce = null: the counter before its first fetch
Null == -1
\* the scenario's starting count
LowCount == 5
\* constants.GAS (src/utils/constants.js is not part of the sources at hand)
MIN_GWEI == 1
MAX_GWEI == 50
DEFAULT_GAS == 500000
\* multipliers in tenths: 1.2 and 1.3
PRICE_MULTIPLIER == 12
RETRY_INCREASE == 13
\* constants.NETWORK.CHAIN_ID and constants.SEPOLIA.CHAIN_ID; constants.js is not
\* among the sources, the two stand for any two different chain ids
NETWORK_CHAIN_ID == 8008148
SEPOLIA_CHAIN_ID == 11155111
\* the least k with Math.pow(1.3, k) = Infinity in IEEE doubles
PowInfinityAt == 2706
\* stands for any bigint price at or above 2^1024: Number() of it is Infinity
HugePrice == 2000000000

Networks == {"fhenix", "sepolia"}
\* network is compared with 'sepolia' only: every other value names the default network
AnyNetworks == Networks \cup {"mainnet"}
\* the counter a network value selects: 'sepolia' for sepoliaNonce, 'fhenix' for currentNonce
Tracked(network) == IF network = "sepolia" THEN "sepolia" ELSE "fhenix"
NetworkCounts == LowCount .. (LowCount + CountSpread)
\* the calls that can be in flight together: A and B
Slots == {1, 2}

VARIABLES
    currentNonce,          \* this.currentNonce (the 'fhenix' counter)
    sepoliaNonce,          \* this.sepoliaNonce
    gas_price_multiplier,  \* this.config.general.gas_price_multiplier, tenths; 0: unset
    calls,                 \* the sendTransaction calls in flight, by slot
    callCount,             \* sendTransaction calls made so far
    signedLog,             \* per network, <<call, nonce>> of the transactions signed so
                           \* far, in signing order
    resets,                \* per network, resetNonce calls made so far
    firstFetched,          \* per network, the first count fetched since the last reset
    racing,                \* per network, some call was made while another call on the
                           \* network was in flight and had not yet incremented the nonce
    track,                 \* per counter: justReset, resetNonce was called and getNonce
                           \* has not been since; answered, the getTransactionCount
                           \* fetches answered since the last resetNonce; lastFailed, the
                           \* nonce of the last call when its broadcast failed; direct,
                           \* the incrementNonce calls made by a caller on the
                           \* initialized counter since the last resetNonce
    gasCall,               \* the last standalone getGasPrice call and its result
    estCall,               \* the last standalone estimateGas call and its result
    apiCall,               \* the last direct getNonce, incrementNonce or resetNonce call
    peer,                  \* a second BlockchainManager instance (another wallet): its
                           \* two counters, its sendTransaction call and what it signed
    lastWalletNum,         \* logger._lastWalletNum, of the logger module all instances share
    randomization,         \* config.randomization
    runner,                \* the loop over a wallet's operations: main of index.js or
                           \* OperationRegistry.executeAll
    transferOp,            \* executeTransferOperation of index.js: its retry loop
    tokenTransfer,         \* the stand-alone TokenTransfer: its currentNonce and its executeTransfer call
    bridgeGas,             \* the last getGasPrice call on a legacy Bridge and its result
    handled,               \* the withErrorHandling call: its attempts, waits and result
    bridgeWait,            \* the waitForBridgeCompletion call of a Bridge
    selfTransfer,          \* the transferToSelf call of a TokenTransfer (transfer.js)
    contractOp,            \* the executeContractOperations call of a ContractDeployer
    balanceCall            \* the last getBalance call on the BlockchainManager and its result

vars == <<currentNonce, sepoliaNonce, gas_price_multiplier, calls, callCount, signedLog,
          resets, firstFetched, racing, track, gasCall, estCall, apiCall, peer,
          lastWalletNum, randomization, runner, transferOp, tokenTransfer,
          bridgeGas, handled, bridgeWait, selfTransfer, contractOp, balanceCall>>

nonceVars == <<currentNonce, sepoliaNonce>>
historyVars == <<signedLog, resets, firstFetched, racing, track>>
opsVars == <<randomization, runner>>
auxVars == <<transferOp, tokenTransfer, bridgeGas, handled, bridgeWait, selfTransfer, contractOp, balanceCall>>
otherVars == <<peer, lastWalletNum, opsVars, auxVars>>
standaloneVars == <<gasCall, estCall, apiCall, otherVars>>
\* everything but the auxiliary variables
coreVars == <<nonceVars, gas_price_multiplier, calls, callCount, historyVars, gasCall,
              estCall, apiCall, peer, lastWalletNum, opsVars>>
Only_transferOp == UNCHANGED <<coreVars, tokenTransfer, bridgeGas, handled, bridgeWait, selfTransfer, contractOp, balanceCall>>
Only_tokenTransfer == UNCHANGED <<coreVars, transferOp, bridgeGas, handled, bridgeWait, selfTransfer, contractOp, balanceCall>>
Only_bridgeGas == UNCHANGED <<coreVars, transferOp, tokenTransfer, handled, bridgeWait, selfTransfer, contractOp, balanceCall>>
Only_handled == UNCHANGED <<coreVars, transferOp, tokenTransfer, bridgeGas, bridgeWait, selfTransfer, contractOp, balanceCall>>
Only_bridgeWait == UNCHANGED <<coreVars, transferOp, tokenTransfer, bridgeGas, handled, selfTransfer, contractOp, balanceCall>>
Only_selfTransfer == UNCHANGED <<coreVars, transferOp, tokenTransfer, bridgeGas, handled, bridgeWait, contractOp, balanceCall>>
Only_contractOp == UNCHANGED <<coreVars, transferOp, tokenTransfer, bridgeGas, handled, bridgeWait, selfTransfer, balanceCall>>
Only_balanceCall == UNCHANGED <<coreVars, transferOp, tokenTransfer, bridgeGas, handled, bridgeWait, selfTransfer, contractOp>>

\* ------------------------------------------------------ pure functions
RECURSIVE Pow(_, _)
Pow(b, e) == IF e = 0 THEN 1 ELSE b * Pow(b, e - 1)

\* web3.utils.toWei(x.toString(), 'gwei')
ToWei(gwei) == gwei * WeiPerGwei

\* (config.general && config.general.gas_price_multiplier) || constants.GAS.PRICE_MULTIPLIER
BaseMultiplier(cfg) == IF cfg # 0 THEN cfg ELSE PRICE_MULTIPLIER

\* Number(networkGasPrice) * multiplier is Infinity or NaN: Math.pow overflowed, or
\* the price itself is beyond the doubles.  BigInt(Math.floor(..)) then throws.
ProductNotFinite(networkGasPrice, retryCount) ==
    \/ networkGasPrice = HugePrice
    \/ retryCount >= PowInfinityAt

\* AdjustedGasPrice with Math.ceil for Math.floor
AdjustedGasPrice_RoundedUp(networkGasPrice, cfg, retryCount) ==
    IF retryCount > 0
    THEN (networkGasPrice * BaseMultiplier(cfg) * Pow(RETRY_INCREASE, retryCount)
              + 10 * Pow(10, retryCount) - 1) \div (10 * Pow(10, retryCount))
    ELSE (networkGasPrice * BaseMultiplier(cfg) + 9) \div 10

\* AdjustedGasPrice with multiplier /= retryMultiplier for multiplier *= retryMultiplier
AdjustedGasPrice_RetryDivides(networkGasPrice, cfg, retryCount) ==
    IF retryCount > 0
    THEN (networkGasPrice * BaseMultiplier(cfg) * Pow(10, retryCount))
             \div (10 * Pow(RETRY_INCREASE, retryCount))
    ELSE (networkGasPrice * BaseMultiplier(cfg)) \div 10

\* Math.floor(Number(networkGasPrice) * multiplier), the retry factor
\* Math.pow(RETRY_INCREASE, retryCount) applied when retryCount > 0
AdjustedGasPrice(networkGasPrice, cfg, retryCount) ==
    IF retryCount > 0
    THEN (networkGasPrice * BaseMultiplier(cfg) * Pow(RETRY_INCREASE, retryCount))
             \div (10 * Pow(10, retryCount))
    ELSE (networkGasPrice * BaseMultiplier(cfg)) \div 10

\* ClampGasPrice without its else-if branch
ClampGasPrice_NoMax(adjustedGasPrice) ==
    IF adjustedGasPrice < ToWei(MIN_GWEI) THEN ToWei(MIN_GWEI) ELSE adjustedGasPrice

\* if (adjusted < min) min else if (adjusted > max) max else adjusted
ClampGasPrice(adjustedGasPrice) ==
    IF adjustedGasPrice < ToWei(MIN_GWEI) THEN ToWei(MIN_GWEI)
    ELSE IF adjustedGasPrice > ToWei(MAX_GWEI) THEN ToWei(MAX_GWEI)
    ELSE adjustedGasPrice

\* FallbackGasPrice falling back to the maximum
FallbackGasPrice_Max == ToWei(MAX_GWEI)

\* the catch block of getGasPrice
FallbackGasPrice == ToWei(MIN_GWEI)

\* getGasPrice(retryCount, network): fetchOk tells whether eth_gasPrice answered
getGasPrice(fetchOk, networkGasPrice, cfg, retryCount) ==
    IF ~fetchOk \/ ProductNotFinite(networkGasPrice, retryCount)
    THEN FallbackGasPrice
    ELSE ClampGasPrice(AdjustedGasPrice(networkGasPrice, cfg, retryCount))

\* estimateGas with Math.ceil for Math.floor
estimateGas_Ceil(estimateOk, estimatedGas) ==
    IF estimateOk THEN (estimatedGas * 12 + 9) \div 10 ELSE DEFAULT_GAS

\* estimateGas with the buffer put on the default too
estimateGas_BufferedDefault(estimateOk, estimatedGas) ==
    IF estimateOk THEN (estimatedGas * 12) \div 10 ELSE (DEFAULT_GAS * 12) \div 10

\* estimateGas(txObject, network): Math.floor(Number(estimatedGas) * 1.2), or the default
estimateGas(estimateOk, estimatedGas) ==
    IF estimateOk THEN (estimatedGas * 12) \div 10 ELSE DEFAULT_GAS

\* incrementNonce that counts a transaction twice
IncrementedNonce_Twice(n) == IF n # Null THEN n + 2 ELSE n

\* incrementNonce that forgets to count
IncrementedNonce_Never(n) == n

\* incrementNonce without its null test: null++ is 1
IncrementedNonce_Unguarded(n) == IF n # Null THEN n + 1 ELSE 1

\* incrementNonce: the new value of a counter
IncrementedNonce(n) == IF n # Null THEN n + 1 ELSE n

\* a resetNonce that leaves a count in the counter
ResetValue_Stale == LowCount

\* resetNonce: the new value of a counter
ResetValue == Null

\* a getNonce that asks the network whatever the counter holds
NeedsFetch_Always(counter) == TRUE

\* getNonce: this.currentNonce === null, the counter has to be fetched
NeedsFetch(counter) == counter = Null

\* a sendTransaction that passes a retry count of its own to getGasPrice
SendRetryCount_Attempt == MaxRetry

\* the retryCount sendTransaction passes: getGasPrice(0, network)
SendRetryCount == 0

\* tx = {...txTemplate, gas: gasLimit, gasPrice}: the gas of the signed transaction.
\* txGas is the gas of the caller's txObject (Null: none); the later key wins.
TxGas(txGas, gasLimit) == gasLimit

\* Objects are functions from their keys; in a @@ b the keys of a win, so the
\* object literal {...b, ...a} is a @@ b.
NoFields == [k \in {} |-> Null]
\* a txObject as the operations build it
PlainTx == [to |-> "0xTo", value |-> 1, data |-> "0x"]
\* the same with a gas key
WithGas(txObject, txGas) == IF txGas = Null THEN txObject ELSE ("gas" :> txGas) @@ txObject
\* the gas key of a txObject, Null when it has none
GasOf(txObject) == IF "gas" \in DOMAIN txObject THEN txObject["gas"] ELSE Null

\* network === 'sepolia' ? constants.SEPOLIA.CHAIN_ID : constants.NETWORK.CHAIN_ID
ChainIdOf(network) == IF network = "sepolia" THEN SEPOLIA_CHAIN_ID ELSE NETWORK_CHAIN_ID

\* a template that lets the keys of txObject win over nonce and chainId
TxTemplate_CallerWins(txObject, nonce, network) ==
    txObject @@ ("nonce" :> nonce) @@ ("chainId" :> ChainIdOf(network))
        @@ ("from" :> "this.address")

\* txTemplate = {from: this.address, ...txObject, nonce: nonce, chainId: chainId}
TxTemplate(txObject, nonce, network) ==
    ("nonce" :> nonce) @@ ("chainId" :> ChainIdOf(network)) @@ txObject
        @@ ("from" :> "this.address")

\* tx = {...txTemplate, gas: gasLimit, gasPrice: gasPrice}
FinalTx(txTemplate, gasLimit, gasPrice) ==
    ("gas" :> gasLimit) @@ ("gasPrice" :> gasPrice) @@ txTemplate

\* what sendTransaction returns from its try block
SuccessResult ==
    [settled |-> "resolved", success |-> TRUE,
     keys |-> {"txHash", "receipt", "success"}, detailKeys |-> {}]

\* a catch block that throws the error on
ErrorResult_Rethrown ==
    [settled |-> "rejected", success |-> FALSE, keys |-> {}, detailKeys |-> {}]

\* what sendTransaction returns from its catch block
ErrorResult ==
    [settled |-> "resolved", success |-> FALSE,
     keys |-> {"success", "error", "details"},
     detailKeys |-> {"message", "code", "data", "reason"}]

\* the promise of a call that has not returned
PendingResult ==
    [settled |-> "pending", success |-> FALSE, keys |-> {}, detailKeys |-> {}]

\* -------------------------------------------------------------- state
NonceOf(network) == IF network = "sepolia" THEN sepoliaNonce ELSE currentNonce

\* a counter assignment that ignores the network
SetNonce_Default(network, v) == currentNonce' = v /\ UNCHANGED sepoliaNonce

SetNonce(network, v) ==
    IF network = "sepolia"
    THEN sepoliaNonce' = v /\ UNCHANGED currentNonce
    ELSE currentNonce' = v /\ UNCHANGED sepoliaNonce

\* A call in flight: its position, the locals of sendTransaction (nonce, gasPrice,
\* gasLimit as gas) and its promise (result).  The other fields record what happened
\* to the call: seq, its number in call order; gpFailed, estFailed, failedAt, the
\* network calls that failed; behind, counterAfter and quiet, see BehindOf and Signed.
\* txGas is the gas of the caller's txObject; cachedAt, the counter when the call was
\* made; fetches, the getTransactionCount fetches the call started and answer, what
\* the network answered; afterReset, afterFailed: see track; rawPrice and gasRetry,
\* what eth_gasPrice answered and the retryCount given to getGasPrice; signs and
\* broadcasts, the signTransaction and sendSignedTransaction requests issued.
FreeCall ==
    [pc |-> "free", seq |-> 0, network |-> "fhenix", nonce |-> Null,
     gasPrice |-> Null, gas |-> Null, gpFailed |-> FALSE, estFailed |-> FALSE,
     failedAt |-> "none", alone |-> TRUE, resetsAtCall |-> 0,
     behind |-> Null, counterAfter |-> Null, quiet |-> FALSE,
     txGas |-> Null, cachedAt |-> Null, fetches |-> 0, answer |-> Null,
     afterReset |-> FALSE, afterFailed |-> Null, rawPrice |-> Null, gasRetry |-> Null,
     signs |-> 0, broadcasts |-> 0,
     txObject |-> NoFields, txTemplate |-> NoFields, tx |-> NoFields,
     result |-> PendingResult]

\* the second instance after construction, and between its calls
FreePeer ==
    [currentNonce |-> Null, sepoliaNonce |-> Null, pc |-> "free", network |-> "fhenix",
     nonce |-> Null, gasPrice |-> Null, gas |-> Null, failedAt |-> "none",
     callCount |-> 0, signed |-> <<>>, firstFetched |-> Null, resets |-> 0]

NoTrack == [justReset |-> FALSE, answered |-> 0, lastFailed |-> Null, direct |-> 0]
NoApiCall ==
    [seq |-> 0, op |-> "none", pc |-> "done", network |-> "fhenix", out |-> Null,
     cachedAt |-> Null, fetches |-> 0, answer |-> Null, afterReset |-> FALSE,
     sent |-> 0, afterNoop |-> FALSE]

NoGasCall == [made |-> FALSE, fetchOk |-> FALSE, price |-> 0, retry |-> 0, out |-> Null]
NoEstCall == [made |-> FALSE, ok |-> FALSE, estimate |-> 0, out |-> Null]

InFlight(s) == calls[s].pc \notin {"free", "done"}
BeforeIncrement(s) == calls[s].pc \in {"nonceFetch", "gasPrice", "estimate", "sign"}

\* ------------------------------------------------ the operation sequence
WalletNums == {1, 2}

\* index.js: allOperations, cut to its first MaxOps entries
allOperations ==
    SubSeq(<<"bridge", "transfer", "contract_deploy", "contract_testing", "erc20",
             "nft", "batch_operations">>, 1, MaxOps)
\* the names a configuration can list: the known ones and one that names no operation
\* (config.json lists "random_contract")
OperationNames == {allOperations[i] : i \in 1 .. Len(allOperations)} \cup {"random_contract"}

\* config.randomization; hasToRun: operations_to_run is set.  The lists are only
\* searched with includes(), so they are kept as sets.
RandomizationConfigs ==
    [enable : BOOLEAN,
     excluded_operations : SUBSET (OperationNames \ {"random_contract"}),
     hasToRun : {TRUE},
     operations_to_run : SUBSET OperationNames]
        \cup
    [enable : BOOLEAN,
     excluded_operations : SUBSET (OperationNames \ {"random_contract"}),
     hasToRun : {FALSE},
     operations_to_run : {{}}]

\* config.randomization || { enable: false, excluded_operations: [], operations_to_run: [...] }
DefaultRandomization ==
    [enable |-> FALSE, excluded_operations |-> {}, hasToRun |-> TRUE,
     operations_to_run |-> OperationNames \ {"random_contract"}]

\* the values of Math.floor(Math.random() * (i + 1)) for i = 1 .. MaxOps - 1
RandomDraws == {r \in [1 .. (MaxOps - 1) -> 0 .. (MaxOps - 1)] : \A i \in DOMAIN r : r[i] <= i}

\* a swap that loses an element
Swap_Overwrite(array, i, j) == [array EXCEPT ![i + 1] = array[j + 1]]

\* [array[i], array[j]] = [array[j], array[i]], indices from 0
Swap(array, i, j) == [array EXCEPT ![i + 1] = array[j + 1], ![j + 1] = array[i + 1]]

\* the Fisher-Yates loop: for (let i = array.length - 1; i > 0; i--)
RECURSIVE Shuffle(_, _, _)
Shuffle(array, i, draws) ==
    IF i > 0 THEN Shuffle(Swap(array, i, draws[i]), i - 1, draws) ELSE array

\* randomizationConfig.operations_to_run || [all the names]
OperationsToRun(cfg) ==
    IF cfg.hasToRun THEN cfg.operations_to_run ELSE OperationNames \ {"random_contract"}

\* the split into fixedOps and randomizableOps, the shuffle and the concatenation
RandomizedFrom(filteredOperations, cfg, draws) ==
    LET fixedOps == SelectSeq(filteredOperations,
                              LAMBDA op : op \in cfg.excluded_operations)
        randomizableOps == SelectSeq(filteredOperations,
                                     LAMBDA op : op \notin cfg.excluded_operations)
    IN  fixedOps \o (IF cfg.enable /\ Len(randomizableOps) > 1
                     THEN Shuffle(randomizableOps, Len(randomizableOps) - 1, draws)
                     ELSE randomizableOps)

\* getRandomizedOperations(config) of index.js, and of ConfigManager with allOperations
getRandomizedOperations(cfg, draws) ==
    RandomizedFrom(SelectSeq(allOperations, LAMBDA op : op \in OperationsToRun(cfg)),
                   cfg, draws)

\* OperationRegistry.getRandomizedOperations: disabled operations are left out
RegistryRandomizedOperations(cfg, enabledOps, draws) ==
    RandomizedFrom(SelectSeq(allOperations,
                             LAMBDA op : op \in OperationsToRun(cfg) /\ op \in enabledOps),
                   cfg, draws)

\* a loop that gives up at the first operation that fails
NextOperation_StopOnFailure(index, ok, length) == IF ok THEN index + 1 ELSE length + 1

\* for (const operation of operations): the loop goes on to the next operation
\* whatever the last one returned or threw
NextOperation(index, ok, length) == index + 1

IdleRunner ==
    [kind |-> "none", pc |-> "idle", operations |-> <<>>, index |-> 0,
     started |-> <<>>, success |-> TRUE, failedAt |-> 0, walletNum |-> Null]

OpsFrame ==
    UNCHANGED <<nonceVars, gas_price_multiplier, calls, callCount, historyVars,
                gasCall, estCall, apiCall, peer, randomization, auxVars>>

\* main of index.js reaches a wallet: operations = getRandomizedOperations(config)
MainStarts(walletNum, draws) ==
    /\ runner.pc = "idle"
    /\ runner' = [IdleRunner EXCEPT !.kind = "main", !.pc = "loop", !.index = 1,
                     !.walletNum = walletNum,
                     !.operations = getRandomizedOperations(randomization, draws)]
    /\ UNCHANGED lastWalletNum
    /\ OpsFrame

\* OperationRegistry.executeAll is called
ExecuteAllStarts(walletNum, enabledOps, draws) ==
    /\ runner.pc = "idle"
    /\ runner' = [IdleRunner EXCEPT !.kind = "executeAll", !.pc = "loop", !.index = 1,
                     !.walletNum = walletNum,
                     !.operations =
                         RegistryRandomizedOperations(randomization, enabledOps, draws)]
    /\ UNCHANGED lastWalletNum
    /\ OpsFrame

\* the loop body: await operation.fn(...) in main; in executeAll
\* logger.setWalletNum(this.walletNum), then await operation.instance.execute()
OperationStarts ==
    /\ runner.pc = "loop"
    /\ runner.index <= Len(runner.operations)
    /\ runner' = [runner EXCEPT !.pc = "awaiting",
                                !.started = Append(@, runner.operations[runner.index])]
    /\ lastWalletNum' = IF runner.kind = "executeAll" THEN runner.walletNum
                        ELSE lastWalletNum
    /\ OpsFrame

\* the operation returns true or false; only executeAll looks at the result
OperationReturns(result) ==
    /\ runner.pc = "awaiting"
    /\ runner' = [runner EXCEPT
          !.pc = "loop",
          !.index = NextOperation(@, result, Len(runner.operations)),
          !.success = IF runner.kind = "executeAll" THEN @ /\ result ELSE @,
          !.failedAt = IF ~result /\ @ = 0 THEN runner.index ELSE @]
    /\ UNCHANGED lastWalletNum
    /\ OpsFrame

\* execute() rejects: the catch block of executeAll
OperationThrows ==
    /\ runner.pc = "awaiting"
    /\ runner.kind = "executeAll"
    /\ runner' = [runner EXCEPT
          !.pc = "loop",
          !.index = NextOperation(@, FALSE, Len(runner.operations)),
          !.success = FALSE,
          !.failedAt = IF @ = 0 THEN runner.index ELSE @]
    /\ UNCHANGED lastWalletNum
    /\ OpsFrame

\* the loop is over
OperationsDone ==
    /\ runner.pc = "loop"
    /\ runner.index > Len(runner.operations)
    /\ runner' = [runner EXCEPT !.pc = "finished"]
    /\ UNCHANGED lastWalletNum
    /\ OpsFrame

NextOps ==
    \/ \E walletNum \in WalletNums, draws \in RandomDraws : MainStarts(walletNum, draws)
    \/ \E walletNum \in WalletNums,
          enabledOps \in SUBSET (OperationNames \ {"random_contract"}),
          draws \in RandomDraws : ExecuteAllStarts(walletNum, enabledOps, draws)
    \/ OperationStarts
    \/ \E result \in BOOLEAN : OperationReturns(result)
    \/ OperationThrows
    \/ OperationsDone

\* ------------------------------------------- executeTransferOperation
\* config.general.max_retries: unset, or 0 .. MaxConfigRetries
ConfigRetries == {Null} \cup (0 .. MaxConfigRetries)
\* config.general.base_wait_time in seconds: unset, 0, or a positive value
ConfigWaitTimes == {Null, 0, 1, 10, 100}

\* config.general?.max_retries || 5: an unset value and 0 are both falsy
RetryLimit(max_retries) == IF max_retries \in {Null, 0} THEN 5 ELSE max_retries

\* Math.min(300, (config.general?.base_wait_time || 10) * (2 ** attempt))
WaitTime(base_wait_time, attempt) ==
    LET base == IF base_wait_time \in {Null, 0} THEN 10 ELSE base_wait_time
        product == base * Pow(2, attempt)
    IN  IF product < 300 THEN product ELSE 300

IdleTransferOp ==
    [pc |-> "idle", enabled |-> FALSE, max_retries |-> Null, base_wait_time |-> Null,
     success |-> FALSE, attempt |-> 0, called |-> 0, waits |-> <<>>, result |-> FALSE]

\* the test of the while loop, and the first statement of its body
LoopOrLeave(op) ==
    IF ~op.success /\ op.attempt < RetryLimit(op.max_retries)
    THEN [op EXCEPT !.pc = "transferToSelf", !.called = @ + 1]
    ELSE [op EXCEPT !.pc = "addRandomDelay"]

\* executeTransferOperation is called: disabled transfers return false at once
ExecuteTransferOperation(enabled, max_retries, base_wait_time) ==
    /\ transferOp.pc = "idle"
    /\ transferOp' =
          LET op == [IdleTransferOp EXCEPT !.enabled = enabled,
                                           !.max_retries = max_retries,
                                           !.base_wait_time = base_wait_time]
          IN  IF enabled THEN LoopOrLeave(op) ELSE [op EXCEPT !.pc = "returned"]
    /\ Only_transferOp

\* await tokenTransfer.transferToSelf(pk, walletNum) resolves
TransferToSelfReturns(success) ==
    /\ transferOp.pc = "transferToSelf"
    /\ transferOp' =
          IF success
          THEN LoopOrLeave([transferOp EXCEPT !.success = TRUE])
          ELSE LET attempt == transferOp.attempt + 1
                   op == [transferOp EXCEPT !.attempt = attempt]
               IN  IF attempt < RetryLimit(transferOp.max_retries)
                   THEN [op EXCEPT !.pc = "waiting",
                                   !.waits = Append(@, WaitTime(op.base_wait_time, attempt))]
                   ELSE LoopOrLeave(op)
    /\ Only_transferOp

\* the setTimeout of the wait fires
RetryWaitOver ==
    /\ transferOp.pc = "waiting"
    /\ transferOp' = LoopOrLeave(transferOp)
    /\ Only_transferOp

\* await addRandomDelay(...) resolves; return success
TransferOperationReturns ==
    /\ transferOp.pc = "addRandomDelay"
    /\ transferOp' = [transferOp EXCEPT !.pc = "returned", !.result = transferOp.success]
    /\ Only_transferOp

NextTransferOp ==
    \/ \E enabled \in BOOLEAN, max_retries \in ConfigRetries,
          base_wait_time \in ConfigWaitTimes :
              ExecuteTransferOperation(enabled, max_retries, base_wait_time)
    \/ \E success \in BOOLEAN : TransferToSelfReturns(success)
    \/ RetryWaitOver
    \/ TransferOperationReturns

\* ------------------------------------- the stand-alone TokenTransfer
\* (src/unnamed/part_000: a TokenTransfer with its own web3 and currentNonce)
\* this.currentNonce = null; no executeTransfer call made yet.  nonce: the value
\* getNonce returned to the call; before: currentNonce when the call was made;
\* outcome: where the call ended
NewTokenTransfer ==
    [currentNonce |-> Null, pc |-> "idle", nonce |-> Null, before |-> Null,
     outcome |-> "none", result |-> FALSE, called |-> 0]

\* this.incrementNonce() of the stand-alone TokenTransfer
TokenIncrementedNonce(counter) == IF counter # Null THEN counter + 1 ELSE counter

\* return from executeTransfer
TransferEnds(tt, outcome, result) ==
    [tt EXCEPT !.pc = "idle", !.outcome = outcome, !.result = result]

\* executeTransfer is called: a disabled transfer returns true, an unusable private
\* key makes privateKeyToAccount throw, otherwise getBalance is awaited
ExecuteTransfer(enabled, keyValid) ==
    /\ tokenTransfer.pc = "idle"
    /\ tokenTransfer.called < MaxTransfers
    /\ tokenTransfer' =
          LET tt == [tokenTransfer EXCEPT !.called = @ + 1, !.nonce = Null,
                                          !.before = tokenTransfer.currentNonce,
                                          !.outcome = "none"]
          IN  IF ~enabled THEN TransferEnds(tt, "disabled", TRUE)
              ELSE IF ~keyValid THEN TransferEnds(tt, "error", FALSE)
              ELSE [tt EXCEPT !.pc = "getBalance"]
    /\ Only_tokenTransfer

\* getBalance resolves: a zero balance returns true, otherwise the delay is awaited
TokenBalanceFetched(zero) ==
    /\ tokenTransfer.pc = "getBalance"
    /\ tokenTransfer' = IF zero THEN TransferEnds(tokenTransfer, "zeroBalance", TRUE)
                        ELSE [tokenTransfer EXCEPT !.pc = "addRandomDelay"]
    /\ Only_tokenTransfer

\* an awaited network call rejects: the catch block returns false
TokenCallFailed(step) ==
    /\ tokenTransfer.pc = step
    /\ tokenTransfer' = TransferEnds(tokenTransfer, "error", FALSE)
    /\ Only_tokenTransfer

\* the delay is over: getNonce(account.address) returns the tracked nonce or fetches
TokenGetNonce ==
    /\ tokenTransfer.pc = "addRandomDelay"
    /\ tokenTransfer' =
          IF tokenTransfer.currentNonce = Null
          THEN [tokenTransfer EXCEPT !.pc = "getTransactionCount"]
          ELSE [tokenTransfer EXCEPT !.pc = "getGasPrice",
                                     !.nonce = tokenTransfer.currentNonce]
    /\ Only_tokenTransfer

\* getTransactionCount resolves: this.currentNonce = count; return this.currentNonce
TokenNonceFetched(count) ==
    /\ tokenTransfer.pc = "getTransactionCount"
    /\ tokenTransfer' = [tokenTransfer EXCEPT !.pc = "getGasPrice",
                                              !.currentNonce = count, !.nonce = count]
    /\ Only_tokenTransfer

\* getGasPrice resolves (it catches its own errors)
TokenGasPriced ==
    /\ tokenTransfer.pc = "getGasPrice"
    /\ tokenTransfer' = [tokenTransfer EXCEPT !.pc = "estimateGas"]
    /\ Only_tokenTransfer

\* estimateGas resolves (it catches its own errors); the amount is computed: a
\* non-positive amount returns true, otherwise this.incrementNonce() and
\* signTransaction is awaited
TokenAmountComputed(positive) ==
    /\ tokenTransfer.pc = "estimateGas"
    /\ tokenTransfer' =
          IF ~positive THEN TransferEnds(tokenTransfer, "lowAmount", TRUE)
          ELSE [tokenTransfer EXCEPT
                   !.pc = "signTransaction",
                   !.currentNonce = TokenIncrementedNonce(@)]
    /\ Only_tokenTransfer

\* signTransaction resolves: sendSignedTransaction is awaited
TokenSigned ==
    /\ tokenTransfer.pc = "signTransaction"
    /\ tokenTransfer' = [tokenTransfer EXCEPT !.pc = "sendSignedTransaction"]
    /\ Only_tokenTransfer

\* signTransaction rejects
TokenSignFailed ==
    /\ tokenTransfer.pc = "signTransaction"
    /\ tokenTransfer' = TransferEnds(tokenTransfer, "signFailed", FALSE)
    /\ Only_tokenTransfer

\* sendSignedTransaction resolves
TokenBroadcastConfirmed ==
    /\ tokenTransfer.pc = "sendSignedTransaction"
    /\ tokenTransfer' = TransferEnds(tokenTransfer, "sent", TRUE)
    /\ Only_tokenTransfer

\* transferToSelf of the stand-alone copy starts: this.currentNonce = null
TokenTransferToSelfStarts ==
    /\ tokenTransfer.pc = "idle"
    /\ tokenTransfer.currentNonce # Null
    /\ tokenTransfer' = [tokenTransfer EXCEPT !.currentNonce = Null]
    /\ Only_tokenTransfer

NextTokenTransfer ==
    \/ \E enabled \in BOOLEAN, keyValid \in BOOLEAN : ExecuteTransfer(enabled, keyValid)
    \/ \E zero \in BOOLEAN : TokenBalanceFetched(zero)
    \/ \E step \in {"getBalance", "getTransactionCount", "sendSignedTransaction"} :
          TokenCallFailed(step)
    \/ TokenGetNonce
    \/ \E count \in NetworkCounts : TokenNonceFetched(count)
    \/ TokenGasPriced
    \/ \E positive \in BOOLEAN : TokenAmountComputed(positive)
    \/ TokenSigned
    \/ TokenSignFailed
    \/ TokenBroadcastConfirmed
    \/ TokenTransferToSelfStarts

\* ------------------------------------------- the legacy Bridge's getGasPrice
\* Bridge.getGasPrice of normalcontract.js: BigInt(Math.floor(Number(gasPrice) * 1.2)),
\* no band; the catch block, which a failed fetch and a product beyond the doubles
\* both reach, returns toWei('50', 'gwei')
LegacyGetGasPrice(fetchOk, gasPrice) ==
    IF fetchOk /\ gasPrice # HugePrice
    THEN (gasPrice * 12) \div 10
    ELSE ToWei(50)

\* ------------------------------------------------- withErrorHandling
\* options.maxRetries (0 when unset) and options.retryDelay in milliseconds (1000
\* when unset)
HandlerRetries == 0 .. MaxHandlerRetries
RetryDelays == {0, 1000, 2500}

\* a retry test that gives up one attempt early
ShouldRetry_Early(attempts, maxRetries) == attempts < maxRetries

\* if (attempts <= maxRetries)
ShouldRetry(attempts, maxRetries) == attempts <= maxRetries

\* no call made.  attempts: the local counter; invoked: fn() calls made; waits: the
\* delays awaited so far; outcome: "value", the value of fn(); "onError", the value
\* of onError(error); "false"; "rejected", the error thrown by onError.  from: the
\* attempt whose value or error went into the outcome
NotHandling ==
    [pc |-> "idle", maxRetries |-> 0, retryDelay |-> 0, hasOnError |-> FALSE,
     attempts |-> 0, invoked |-> 0, waits |-> <<>>, outcome |-> "none", from |-> 0]

\* withErrorHandling(fn, options) is called: attempts++, fn() is called and awaited
WithErrorHandling(maxRetries, retryDelay, hasOnError) ==
    /\ handled.pc = "idle"
    /\ handled' = [NotHandling EXCEPT !.pc = "fn", !.maxRetries = maxRetries,
                                      !.retryDelay = retryDelay,
                                      !.hasOnError = hasOnError,
                                      !.attempts = 1, !.invoked = 1]
    /\ Only_handled

\* fn() resolves: return await fn()
FnReturns ==
    /\ handled.pc = "fn"
    /\ handled' = [handled EXCEPT !.pc = "returned", !.outcome = "value",
                                  !.from = handled.attempts]
    /\ Only_handled

\* fn() throws or rejects: the catch block waits for the retry, or ends the call with
\* onError(error), which returns or throws, or with false
FnThrows(onErrorThrows) ==
    /\ handled.pc = "fn"
    /\ handled' =
          IF ShouldRetry(handled.attempts, handled.maxRetries)
          THEN [handled EXCEPT
                   !.pc = "waiting",
                   !.waits = Append(@, handled.retryDelay * handled.attempts)]
          ELSE IF handled.hasOnError
          THEN [handled EXCEPT
                   !.pc = IF onErrorThrows THEN "rejected" ELSE "returned",
                   !.outcome = IF onErrorThrows THEN "rejected" ELSE "onError",
                   !.from = handled.attempts]
          ELSE [handled EXCEPT !.pc = "returned", !.outcome = "false"]
    /\ Only_handled

\* the setTimeout fires: the loop goes round, attempts++, fn() is called again
RetryDelayOver ==
    /\ handled.pc = "waiting"
    /\ handled' = [handled EXCEPT !.pc = "fn", !.attempts = @ + 1, !.invoked = @ + 1]
    /\ Only_handled

NextHandled ==
    \/ \E maxRetries \in HandlerRetries, retryDelay \in RetryDelays,
          hasOnError \in BOOLEAN :
              WithErrorHandling(maxRetries, retryDelay, hasOnError)
    \/ FnReturns
    \/ \E onErrorThrows \in BOOLEAN : FnThrows(onErrorThrows)
    \/ RetryDelayOver

\* ------------------------------------------- Bridge.waitForBridgeCompletion
\* const maxChecks = 20
maxChecks == 20
\* balances on Fhenix, in units of the bridged amount
Balances == 0 .. (MaxBalance + 1)

\* a loop test that allows one check more
KeepChecking_OneMore(checks) == checks <= maxChecks

\* while (checks < maxChecks)
KeepChecking(checks) == checks < maxChecks

\* no call made.  checks: the local counter; queried: getBalance calls made;
\* current: the balance the last check saw (Null before the first check and when
\* the check threw)
NotWaiting ==
    [pc |-> "idle", initialBalance |-> 0, checks |-> 0, queried |-> 0,
     current |-> Null, result |-> FALSE]

\* the loop test: the next delay starts, or the function returns false
CheckOrTimeOut(w) ==
    IF KeepChecking(w.checks) THEN [w EXCEPT !.pc = "delay"]
    ELSE [w EXCEPT !.pc = "returned", !.result = FALSE]

\* BlockchainManager.getBalance: the balance, '0' when the query fails
getBalance(queryOk, balance) == IF queryOk THEN balance ELSE 0

\* waitForBridgeCompletion(initialFhenixBalance, amountBridgedWei) is called
WaitForBridgeCompletion(initialBalance) ==
    /\ bridgeWait.pc = "idle"
    /\ bridgeWait' = CheckOrTimeOut([NotWaiting EXCEPT !.initialBalance = initialBalance])
    /\ Only_bridgeWait

\* the 30 second delay is over: this.blockchain.getBalance('fhenix') is called
CheckDelayOver ==
    /\ bridgeWait.pc = "delay"
    /\ bridgeWait' = [bridgeWait EXCEPT !.pc = "getBalance", !.queried = @ + 1]
    /\ Only_bridgeWait

\* getBalance resolves: a balance above the initial one returns true, anything else
\* counts a check
BalanceChecked(queryOk, balance) ==
    /\ bridgeWait.pc = "getBalance"
    /\ bridgeWait' =
          LET currentFhenixBalance == getBalance(queryOk, balance)
              w == [bridgeWait EXCEPT !.current = currentFhenixBalance]
          IN  IF currentFhenixBalance > bridgeWait.initialBalance
              THEN [w EXCEPT !.pc = "returned", !.result = TRUE]
              ELSE CheckOrTimeOut([w EXCEPT !.checks = @ + 1])
    /\ Only_bridgeWait

\* the try block throws: the catch block counts a check
BalanceCheckThrows ==
    /\ bridgeWait.pc = "getBalance"
    /\ bridgeWait' = CheckOrTimeOut([bridgeWait EXCEPT !.checks = @ + 1,
                                                       !.current = Null])
    /\ Only_bridgeWait

NextBridgeWait ==
    \/ \E initialBalance \in 0 .. MaxBalance : WaitForBridgeCompletion(initialBalance)
    \/ CheckDelayOver
    \/ \E queryOk \in BOOLEAN, balance \in Balances : BalanceChecked(queryOk, balance)
    \/ BalanceCheckThrows

\* ------------------------------------------- TokenTransfer.transferToSelf
\* executeTransfer of transfer.js, by what it returns: true for a balance of '0'
\* (which getBalance also answers when its query fails) and for an amount that is
\* not positive, otherwise result.success of sendTransaction
executeTransfer(queryOk, balance, amountPositive, sendSuccess) ==
    IF getBalance(queryOk, balance) = 0 THEN TRUE
    ELSE IF ~amountPositive THEN TRUE
    ELSE sendSuccess

\* executeTransfer reached sendTransaction and got success: true
Broadcast(queryOk, balance, amountPositive, sendSuccess) ==
    getBalance(queryOk, balance) # 0 /\ amountPositive /\ sendSuccess

\* no call made.  r, i: the loop counters; totalSuccess: the local counter;
\* broadcast: the executeTransfer calls whose sendTransaction succeeded
NoSelfTransfer ==
    [pc |-> "idle", transferCount |-> 0, repeatTimes |-> 0, r |-> 0, i |-> 0,
     totalSuccess |-> 0, broadcast |-> 0, result |-> FALSE]

\* transferToSelf is called with transfers enabled: the first repeat cycle resets the
\* nonce of the BlockchainManager it has just made and calls executeTransfer
TransferToSelf(transferCount, repeatTimes) ==
    /\ selfTransfer.pc = "idle"
    /\ selfTransfer' = [NoSelfTransfer EXCEPT !.pc = "executeTransfer",
                                              !.transferCount = transferCount,
                                              !.repeatTimes = repeatTimes,
                                              !.r = 0, !.i = 1]
    /\ Only_selfTransfer

\* await this.executeTransfer(...) resolves: the counters, then the delay before the
\* next transfer or the next cycle, or the return of totalSuccess > 0
ExecuteTransferReturns(queryOk, balance, amountPositive, sendSuccess) ==
    /\ selfTransfer.pc = "executeTransfer"
    /\ selfTransfer' =
          LET success == executeTransfer(queryOk, balance, amountPositive, sendSuccess)
              totalSuccess == selfTransfer.totalSuccess + (IF success THEN 1 ELSE 0)
              t == [selfTransfer EXCEPT
                       !.totalSuccess = totalSuccess,
                       !.broadcast = @ + (IF Broadcast(queryOk, balance, amountPositive,
                                                      sendSuccess) THEN 1 ELSE 0)]
          IN  IF t.i < t.transferCount \/ t.r < t.repeatTimes - 1
              THEN [t EXCEPT !.pc = "addRandomDelay"]
              ELSE [t EXCEPT !.pc = "returned", !.result = totalSuccess > 0]
    /\ Only_selfTransfer

\* the delay is over: the next transfer of the cycle, or the next cycle
TransferDelayOver ==
    /\ selfTransfer.pc = "addRandomDelay"
    /\ selfTransfer' =
          IF selfTransfer.i < selfTransfer.transferCount
          THEN [selfTransfer EXCEPT !.pc = "executeTransfer", !.i = @ + 1]
          ELSE [selfTransfer EXCEPT !.pc = "executeTransfer", !.r = @ + 1, !.i = 1]
    /\ Only_selfTransfer

NextSelfTransfer ==
    \/ \E transferCount \in 1 .. MaxTransferCount, repeatTimes \in 1 .. MaxRepeatTimes :
          TransferToSelf(transferCount, repeatTimes)
    \/ \E queryOk \in BOOLEAN, balance \in Balances, amountPositive \in BOOLEAN,
          sendSuccess \in BOOLEAN :
              ExecuteTransferReturns(queryOk, balance, amountPositive, sendSuccess)
    \/ TransferDelayOver

\* ------------------------------------- ContractDeployer.executeContractOperations
\* The deployer's own BlockchainManager is seen through the results of its
\* sendTransaction calls.
\* a deployContract that hands a failed result on
DeployThrows_Never(success) == FALSE

\* deployContract: if (!result.success) throw new Error(result.error)
DeployThrows(success) == ~success

\* no call made.  deployed: "none", "yes" (deployContract returned), "no" (it threw);
\* i: the loop counter; called: callContractMethod calls made; successCount: the
\* local counter; results: result.success of the interactions so far
NoContractOp ==
    [pc |-> "idle", deployed |-> "none", interactionCount |-> 0, i |-> 0,
     called |-> 0, successCount |-> 0, results |-> <<>>, result |-> FALSE]

ContractOpEnds(op, result) == [op EXCEPT !.pc = "returned", !.result = result]

\* executeContractOperations is called: disabled deployments return true, otherwise
\* resetNonce and compileContract
ExecuteContractOperations(enabled) ==
    /\ contractOp.pc = "idle"
    /\ contractOp' = IF enabled THEN [NoContractOp EXCEPT !.pc = "compileContract"]
                     ELSE ContractOpEnds(NoContractOp, TRUE)
    /\ Only_contractOp

\* compileContract resolves, the delay before the deployment starts; or it throws
ContractCompiled(ok) ==
    /\ contractOp.pc = "compileContract"
    /\ contractOp' = IF ok THEN [contractOp EXCEPT !.pc = "addRandomDelay"]
                     ELSE ContractOpEnds(contractOp, FALSE)
    /\ Only_contractOp

\* the delay is over: deployContract is called
DeployContract ==
    /\ contractOp.pc = "addRandomDelay"
    /\ contractOp' = [contractOp EXCEPT !.pc = "deployContract"]
    /\ Only_contractOp

\* sendTransaction of the deployment resolves with success or not: deployContract
\* returns the contract or throws; with the contract, interactions disabled return
\* true, otherwise the loop starts with the delay before the first interaction
DeploymentSent(success, interactionsEnabled, interactionCount) ==
    /\ contractOp.pc = "deployContract"
    /\ contractOp' =
          IF DeployThrows(success)
          THEN ContractOpEnds([contractOp EXCEPT !.deployed = "no"], FALSE)
          ELSE IF ~interactionsEnabled
          THEN ContractOpEnds([contractOp EXCEPT !.deployed = "yes"], TRUE)
          ELSE [contractOp EXCEPT !.deployed = IF success THEN "yes" ELSE "no",
                                  !.interactionCount = interactionCount,
                                  !.pc = "interactionDelay"]
    /\ Only_contractOp

\* the delay before an interaction is over: callContractMethod is called
CallContractMethod ==
    /\ contractOp.pc = "interactionDelay"
    /\ contractOp' = [contractOp EXCEPT !.pc = "callContractMethod", !.called = @ + 1]
    /\ Only_contractOp

\* callContractMethod resolves with success or not (it catches what it throws): the
\* next interaction, or return true
ContractMethodCalled(success) ==
    /\ contractOp.pc = "callContractMethod"
    /\ contractOp' =
          LET op == [contractOp EXCEPT !.successCount = @ + (IF success THEN 1 ELSE 0),
                                       !.results = Append(@, success),
                                       !.i = @ + 1]
          IN  IF op.i < op.interactionCount
              THEN [op EXCEPT !.pc = "interactionDelay"]
              ELSE ContractOpEnds(op, TRUE)
    /\ Only_contractOp

NextContractOp ==
    \/ \E enabled \in BOOLEAN : ExecuteContractOperations(enabled)
    \/ \E ok \in BOOLEAN : ContractCompiled(ok)
    \/ DeployContract
    \/ \E success \in BOOLEAN, interactionsEnabled \in BOOLEAN,
          interactionCount \in 1 .. MaxInteractions :
              DeploymentSent(success, interactionsEnabled, interactionCount)
    \/ CallContractMethod
    \/ \E success \in BOOLEAN : ContractMethodCalled(success)

\* ------------------------------------------------ BlockchainManager.getBalance
\* the balances eth_getBalance answers, in wei
QueriedBalances == {0, WeiPerGwei}
NoBalanceCall == [made |-> FALSE, network |-> "fhenix", queryOk |-> FALSE, balance |-> Null]

\* getBalance(network) is called and returns: the balance eth_getBalance answered, or
\* '0' from the catch block when the query failed
GetBalance(network, queryOk, balance) ==
    /\ balanceCall' = [made |-> TRUE, network |-> network, queryOk |-> queryOk,
                       balance |-> getBalance(queryOk, balance)]
    /\ Only_balanceCall

\* the configured multipliers: unset, 1 (README), 1.1 (config.json), 1.2, 1.5
ConfigMultipliers == {0, 10, 11, 12, 15}

InitCommon ==
    /\ currentNonce = Null
    /\ sepoliaNonce = Null
    /\ calls = [s \in Slots |-> FreeCall]
    /\ callCount = 0
    /\ signedLog = [n \in Networks |-> <<>>]
    /\ resets = [n \in Networks |-> 0]
    /\ firstFetched = [n \in Networks |-> Null]
    /\ racing = [n \in Networks |-> FALSE]
    /\ track = [n \in Networks |-> NoTrack]
    /\ gasCall = NoGasCall
    /\ estCall = NoEstCall
    /\ apiCall = NoApiCall
    /\ peer = FreePeer
    /\ lastWalletNum = 2
    /\ runner = IdleRunner
    /\ transferOp = IdleTransferOp
    /\ tokenTransfer = NewTokenTransfer
    /\ bridgeGas = NoGasCall
    /\ handled = NotHandling
    /\ bridgeWait = NotWaiting
    /\ selfTransfer = NoSelfTransfer
    /\ contractOp = NoContractOp
    /\ balanceCall = NoBalanceCall

Init ==
    /\ InitCommon
    /\ gas_price_multiplier = 11
    /\ randomization = DefaultRandomization

InitOps ==
    /\ InitCommon
    /\ gas_price_multiplier = 11
    /\ randomization \in RandomizationConfigs

\* One wallet's operations, for every randomization configuration.
SpecOps == InitOps /\ [][NextOps]_vars

\* One executeTransferOperation call, for every configuration of the retries.
SpecTransferOp == Init /\ [][NextTransferOp]_vars

\* The executeTransfer calls of one stand-alone TokenTransfer, one after the other.
SpecTokenTransfer == Init /\ [][NextTokenTransfer]_vars

\* ------------------------------------------- the legacy Bridge's getGasPrice
\* getGasPrice() is called on a legacy Bridge and eth_gasPrice answers
BridgeGetGasPrice(gasPrice) ==
    /\ bridgeGas' = [made |-> TRUE, fetchOk |-> TRUE, price |-> gasPrice, retry |-> 0,
                     out |-> LegacyGetGasPrice(TRUE, gasPrice)]
    /\ Only_bridgeGas

\* getGasPrice() is called on a legacy Bridge and eth_gasPrice fails
BridgeGetGasPriceFetchFailed ==
    /\ bridgeGas' = [made |-> TRUE, fetchOk |-> FALSE, price |-> 0, retry |-> 0,
                     out |-> LegacyGetGasPrice(FALSE, 0)]
    /\ Only_bridgeGas

\* One withErrorHandling call.  Every fn() call settles and every timer fires.
SpecHandled == Init /\ [][NextHandled]_vars /\ WF_vars(NextHandled)

\* One waitForBridgeCompletion call.  Every timer fires and every query settles.
SpecBridgeWait == Init /\ [][NextBridgeWait]_vars /\ WF_vars(NextBridgeWait)

\* One transferToSelf call, for every outcome of its executeTransfer calls.
SpecSelfTransfer == Init /\ [][NextSelfTransfer]_vars

\* One executeContractOperations call.
SpecContractOp == Init /\ [][NextContractOp]_vars

\* ------------------------------------------------ sendTransaction steps
Others(s) == {t \in Slots \ {s} : InFlight(t)}

\* The nonce of the call another call is made behind: the one other call in flight,
\* on the same network, itself made with no call in flight and no call or reset
\* since, its broadcast pending.  Null when there is no such call.
BehindOf(s, network) ==
    IF \E t \in Slots \ {s} :
          /\ Others(s) = {t}
          /\ calls[t].pc = "broadcast"
          /\ Tracked(calls[t].network) = Tracked(network)
          /\ calls[t].alone
          /\ calls[t].seq = callCount
          /\ calls[t].resetsAtCall = resets[Tracked(network)]
    THEN calls[CHOOSE t \in Slots \ {s} : Others(s) = {t}].nonce
    ELSE Null

\* sendTransaction(txObject, methodName, network) is called: it runs up to its
\* first pending await.  getNonce either starts eth_getTransactionCount or returns
\* the cached counter, and then getGasPrice starts eth_gasPrice.
SendTransactionObj(s, network, txObject) ==
    /\ calls[s].pc = "free"
    /\ \A t \in Slots : t < s => calls[t].pc # "free"
    /\ callCount' = callCount + 1
    /\ calls' = [calls EXCEPT ![s] =
          [FreeCall EXCEPT
              !.pc = IF NeedsFetch(NonceOf(network)) THEN "nonceFetch" ELSE "gasPrice",
              !.seq = callCount + 1,
              !.network = network,
              !.nonce = NonceOf(network),
              !.alone = (Others(s) = {}),
              !.resetsAtCall = resets[Tracked(network)],
              !.behind = BehindOf(s, network),
              !.txGas = GasOf(txObject),
              !.txObject = txObject,
              !.cachedAt = NonceOf(network),
              !.fetches = IF NeedsFetch(NonceOf(network)) THEN 1 ELSE 0,
              !.afterReset = track[Tracked(network)].justReset,
              !.afterFailed = track[Tracked(network)].lastFailed]]
    /\ racing' = [racing EXCEPT ![Tracked(network)] =
          @ \/ \E t \in Others(s) :
                   Tracked(calls[t].network) = Tracked(network) /\ BeforeIncrement(t)]
    /\ track' = [track EXCEPT ![Tracked(network)].justReset = FALSE,
                              ![Tracked(network)].lastFailed = Null]
    /\ UNCHANGED <<nonceVars, gas_price_multiplier, signedLog, resets, firstFetched,
                   standaloneVars>>

\* the same for a txObject of the operations, with txGas for its gas (Null: none)
SendTransactionTx(s, network, txGas) ==
    SendTransactionObj(s, network, WithGas(PlainTx, txGas))

\* the same for a txObject that carries no gas
SendTransaction(s, network) == SendTransactionTx(s, network, Null)

\* the same, made while other calls may be in flight
SendTransactionRacing(s, network) ==
    /\ callCount < MaxRaceCalls
    /\ SendTransaction(s, network)

\* the same, made by a caller that awaits each call before it makes the next
SendTransactionAwaited(s, network) ==
    /\ \A t \in Slots : calls[t].pc = "free"
    /\ callCount < MaxCalls
    /\ SendTransaction(s, network)

\* the catch block of sendTransaction
Caught(s, step) ==
    calls' = [calls EXCEPT ![s].pc = "done", ![s].failedAt = step,
                           ![s].result = ErrorResult]

\* eth_getTransactionCount answers: this.currentNonce = await ...; return this.currentNonce
NonceFetched(s, count) ==
    /\ calls[s].pc = "nonceFetch"
    /\ SetNonce(calls[s].network, count)
    /\ calls' = [calls EXCEPT ![s].pc = "gasPrice", ![s].nonce = count,
                               ![s].answer = count]
    /\ firstFetched' = [firstFetched EXCEPT ![Tracked(calls[s].network)] =
          IF @ = Null THEN count ELSE @]
    /\ track' = [track EXCEPT ![Tracked(calls[s].network)].answered = @ + 1]
    /\ UNCHANGED <<gas_price_multiplier, callCount, signedLog, resets, racing,
                   standaloneVars>>

\* eth_getTransactionCount fails: getNonce throws into the catch block
NonceFetchFailed(s) ==
    /\ calls[s].pc = "nonceFetch"
    /\ Caught(s, "nonce")
    /\ UNCHANGED <<nonceVars, gas_price_multiplier, callCount, historyVars, standaloneVars>>

\* eth_gasPrice answers: getGasPrice(0, network) returns, estimateGas starts
GasPriceFetched(s, networkGasPrice) ==
    /\ calls[s].pc = "gasPrice"
    /\ calls' = [calls EXCEPT ![s].pc = "estimate",
          ![s].rawPrice = networkGasPrice, ![s].gasRetry = SendRetryCount,
          ![s].gasPrice = getGasPrice(TRUE, networkGasPrice, gas_price_multiplier,
                                      SendRetryCount),
          ![s].txTemplate = TxTemplate(calls[s].txObject, calls[s].nonce,
                                       calls[s].network)]
    /\ UNCHANGED <<nonceVars, gas_price_multiplier, callCount, historyVars, standaloneVars>>

\* eth_gasPrice fails: getGasPrice returns its fallback
GasPriceFetchFailed(s) ==
    /\ calls[s].pc = "gasPrice"
    /\ calls' = [calls EXCEPT ![s].pc = "estimate", ![s].gpFailed = TRUE,
          ![s].gasRetry = SendRetryCount,
          ![s].gasPrice = getGasPrice(FALSE, 0, gas_price_multiplier, SendRetryCount),
          ![s].txTemplate = TxTemplate(calls[s].txObject, calls[s].nonce,
                                       calls[s].network)]
    /\ UNCHANGED <<nonceVars, gas_price_multiplier, callCount, historyVars, standaloneVars>>

\* eth_estimateGas answers: tx = {...txTemplate, gas, gasPrice}, signTransaction starts
GasEstimated(s, estimatedGas) ==
    /\ calls[s].pc = "estimate"
    /\ calls' = [calls EXCEPT ![s].pc = "sign", ![s].signs = @ + 1,
          ![s].gas = TxGas(calls[s].txGas, estimateGas(TRUE, estimatedGas)),
          ![s].tx = FinalTx(calls[s].txTemplate,
                            TxGas(calls[s].txGas, estimateGas(TRUE, estimatedGas)),
                            calls[s].gasPrice)]
    /\ UNCHANGED <<nonceVars, gas_price_multiplier, callCount, historyVars, standaloneVars>>

\* eth_estimateGas fails or reverts: estimateGas returns the default
GasEstimateFailed(s) ==
    /\ calls[s].pc = "estimate"
    /\ calls' = [calls EXCEPT ![s].pc = "sign", ![s].estFailed = TRUE,
          ![s].signs = @ + 1,
          ![s].gas = TxGas(calls[s].txGas, estimateGas(FALSE, 0)),
          ![s].tx = FinalTx(calls[s].txTemplate,
                            TxGas(calls[s].txGas, estimateGas(FALSE, 0)),
                            calls[s].gasPrice)]
    /\ UNCHANGED <<nonceVars, gas_price_multiplier, callCount, historyVars, standaloneVars>>

\* signTransaction resolves: incrementNonce(network), then sendSignedTransaction
\* starts.  quiet: no call and no reset was made since this call was.
Signed(s) ==
    /\ calls[s].pc = "sign"
    /\ SetNonce(calls[s].network, IncrementedNonce(NonceOf(calls[s].network)))
    /\ calls' = [calls EXCEPT ![s].pc = "broadcast", ![s].broadcasts = @ + 1,
          ![s].counterAfter = IncrementedNonce(NonceOf(calls[s].network)),
          ![s].quiet = (callCount = calls[s].seq
                        /\ resets[Tracked(calls[s].network)] = calls[s].resetsAtCall)]
    /\ signedLog' = [signedLog EXCEPT ![Tracked(calls[s].network)] =
          Append(@, <<calls[s].seq, calls[s].nonce>>)]
    /\ UNCHANGED <<gas_price_multiplier, callCount, resets, firstFetched, racing, track,
                   standaloneVars>>

\* signTransaction rejects
SignFailed(s) ==
    /\ calls[s].pc = "sign"
    /\ Caught(s, "sign")
    /\ UNCHANGED <<nonceVars, gas_price_multiplier, callCount, historyVars, standaloneVars>>

\* sendSignedTransaction resolves with the receipt
BroadcastConfirmed(s) ==
    /\ calls[s].pc = "broadcast"
    /\ calls' = [calls EXCEPT ![s].pc = "done", ![s].result = SuccessResult]
    /\ UNCHANGED <<nonceVars, gas_price_multiplier, callCount, historyVars, standaloneVars>>

\* sendSignedTransaction rejects.  lastFailed: the nonce of the call, when no
\* resetNonce was made on its network since the call was.
BroadcastFailed(s) ==
    /\ calls[s].pc = "broadcast"
    /\ Caught(s, "broadcast")
    /\ track' = [track EXCEPT ![Tracked(calls[s].network)].lastFailed =
          IF resets[Tracked(calls[s].network)] = calls[s].resetsAtCall
          THEN calls[s].nonce ELSE Null]
    /\ UNCHANGED <<nonceVars, gas_price_multiplier, callCount, signedLog, resets,
                   firstFetched, racing, standaloneVars>>

\* the caller takes the result: nothing of the call is retained
Return(s) ==
    /\ calls[s].pc = "done"
    /\ calls' = [calls EXCEPT ![s] = FreeCall]
    /\ UNCHANGED <<nonceVars, gas_price_multiplier, callCount, historyVars, standaloneVars>>

\* resetNonce(network): what it does to the counter
ResetNonceEffect(network) ==
    /\ SetNonce(network, ResetValue)
    /\ resets' = [resets EXCEPT ![Tracked(network)] = @ + 1]
    /\ firstFetched' = [firstFetched EXCEPT ![Tracked(network)] = Null]
    /\ track' = [track EXCEPT ![Tracked(network)] =
          [justReset |-> TRUE, answered |-> 0, lastFailed |-> Null, direct |-> 0]]
    /\ UNCHANGED <<gas_price_multiplier, calls, callCount, signedLog, racing,
                   gasCall, estCall, otherVars>>

\* resetNonce(network)
ResetNonce(network) ==
    /\ ResetNonceEffect(network)
    /\ UNCHANGED apiCall

\* resetNonce(network), as the sequential specification bounds it
ResetNonceBounded(network) ==
    /\ resets["fhenix"] + resets["sepolia"] < MaxResets
    /\ ResetNonce(network)

\* resetNonce(network), once in a behaviour of the concurrent specification
ResetNonceOnce(network) ==
    /\ resets[network] = 0
    /\ ResetNonce(network)

\* the answers of the network to the calls of the concurrent specification
RaceCounts == {LowCount, LowCount + 1}
RacePrices == {ToWei(10)}
RaceEstimates == {21001}
\* ... and of the sequential one
CallPrices == {ToWei(10), ToWei(1000)}
CallEstimates == {21000, 21001}

\* Concurrent calls on one network: a caller that does not await each call.
Next ==
    \/ \E s \in Slots : SendTransactionRacing(s, "fhenix")
    \/ \E s \in Slots, count \in RaceCounts : NonceFetched(s, count)
    \/ \E s \in Slots : NonceFetchFailed(s)
    \/ \E s \in Slots, p \in RacePrices : GasPriceFetched(s, p)
    \/ \E s \in Slots : GasPriceFetchFailed(s)
    \/ \E s \in Slots, e \in RaceEstimates : GasEstimated(s, e)
    \/ \E s \in Slots : GasEstimateFailed(s)
    \/ \E s \in Slots : Signed(s)
    \/ \E s \in Slots : SignFailed(s)
    \/ \E s \in Slots : BroadcastConfirmed(s)
    \/ \E s \in Slots : BroadcastFailed(s)
    \/ \E s \in Slots : Return(s)
    \/ ResetNonceOnce("fhenix")

Spec == Init /\ [][Next]_vars

\* Awaited calls on both networks: the callers of the repository.
NextSeq ==
    \/ \E s \in Slots, network \in Networks : SendTransactionAwaited(s, network)
    \/ \E s \in Slots, count \in NetworkCounts : NonceFetched(s, count)
    \/ \E s \in Slots : NonceFetchFailed(s)
    \/ \E s \in Slots, p \in CallPrices : GasPriceFetched(s, p)
    \/ \E s \in Slots : GasPriceFetchFailed(s)
    \/ \E s \in Slots, e \in CallEstimates : GasEstimated(s, e)
    \/ \E s \in Slots : GasEstimateFailed(s)
    \/ \E s \in Slots : Signed(s)
    \/ \E s \in Slots : SignFailed(s)
    \/ \E s \in Slots : BroadcastConfirmed(s)
    \/ \E s \in Slots : BroadcastFailed(s)
    \/ \E s \in Slots : Return(s)
    \/ \E network \in Networks : ResetNonceBounded(network)

SpecSeq == Init /\ [][NextSeq]_vars

\* ------------------------------------------------- the nonce interface
\* getNonce, incrementNonce and resetNonce called directly, as the operations do,
\* next to sendTransaction; the caller awaits every call before it makes the next.
ApiIdle ==
    /\ \A s \in Slots : calls[s].pc = "free"
    /\ apiCall.pc # "fetch"

ApiBudget == apiCall.seq + callCount < MaxApiCalls

\* getNonce(network) is called: it returns the cached counter or starts
\* eth_getTransactionCount
GetNonce(network) ==
    /\ ApiIdle /\ ApiBudget
    /\ apiCall' =
          [seq |-> apiCall.seq + 1, op |-> "getNonce",
           pc |-> IF NeedsFetch(NonceOf(network)) THEN "fetch" ELSE "returned",
           network |-> network,
           out |-> NonceOf(network),
           cachedAt |-> NonceOf(network),
           fetches |-> IF NeedsFetch(NonceOf(network)) THEN 1 ELSE 0,
           answer |-> Null,
           afterReset |-> track[Tracked(network)].justReset,
           sent |-> callCount,
           afterNoop |-> /\ apiCall.op = "incrementNonce"
                         /\ apiCall.cachedAt = Null
                         /\ apiCall.sent = callCount
                         /\ Tracked(apiCall.network) = Tracked(network)]
    /\ track' = [track EXCEPT ![Tracked(network)].justReset = FALSE]
    /\ UNCHANGED <<nonceVars, gas_price_multiplier, calls, callCount, signedLog, resets,
                   firstFetched, racing, gasCall, estCall, otherVars>>

\* eth_getTransactionCount answers: this.currentNonce = await ...; return this.currentNonce
GetNonceFetched(count) ==
    /\ apiCall.pc = "fetch"
    /\ SetNonce(apiCall.network, count)
    /\ apiCall' = [apiCall EXCEPT !.pc = "returned", !.out = count, !.answer = count]
    /\ firstFetched' = [firstFetched EXCEPT ![Tracked(apiCall.network)] =
          IF @ = Null THEN count ELSE @]
    /\ track' = [track EXCEPT ![Tracked(apiCall.network)].answered = @ + 1]
    /\ UNCHANGED <<gas_price_multiplier, calls, callCount, signedLog, resets, racing,
                   gasCall, estCall, otherVars>>

\* eth_getTransactionCount fails: getNonce rejects
GetNonceFetchFailed ==
    /\ apiCall.pc = "fetch"
    /\ apiCall' = [apiCall EXCEPT !.pc = "rejected"]
    /\ UNCHANGED <<nonceVars, gas_price_multiplier, calls, callCount, historyVars,
                   gasCall, estCall, otherVars>>

\* incrementNonce(network)
IncrementNonce(network) ==
    /\ ApiIdle /\ ApiBudget
    /\ SetNonce(network, IncrementedNonce(NonceOf(network)))
    /\ apiCall' =
          [NoApiCall EXCEPT !.seq = apiCall.seq + 1, !.op = "incrementNonce",
                            !.pc = "returned", !.network = network,
                            !.cachedAt = NonceOf(network), !.sent = callCount]
    /\ track' = [track EXCEPT ![Tracked(network)].lastFailed = Null,
                              ![Tracked(network)].direct =
                                  IF NonceOf(network) # Null THEN @ + 1 ELSE @]
    /\ UNCHANGED <<gas_price_multiplier, calls, callCount, signedLog, resets,
                   firstFetched, racing, gasCall, estCall, otherVars>>

\* resetNonce(network), called with no call in flight
ResetNonceDirect(network) ==
    /\ ApiIdle /\ ApiBudget
    /\ ResetNonceEffect(network)
    /\ apiCall' =
          [NoApiCall EXCEPT !.seq = apiCall.seq + 1, !.op = "resetNonce",
                            !.pc = "returned", !.network = network,
                            !.cachedAt = NonceOf(network)]

\* the gas a caller puts into its txObject: none, or CallerGas
CallerGas == 30000
TxGasChoices == {Null, CallerGas}

\* sendTransaction(txObject, methodName, network), awaited
SendTransactionDirect(s, network, txGas) ==
    /\ ApiIdle /\ ApiBudget
    /\ SendTransactionTx(s, network, txGas)

NextApi ==
    \/ \E network \in AnyNetworks : GetNonce(network)
    \/ \E count \in RaceCounts : GetNonceFetched(count)
    \/ GetNonceFetchFailed
    \/ \E network \in AnyNetworks : IncrementNonce(network)
    \/ \E network \in AnyNetworks : ResetNonceDirect(network)
    \/ \E s \in Slots, network \in AnyNetworks, txGas \in TxGasChoices :
          SendTransactionDirect(s, network, txGas)
    \/ \E s \in Slots, count \in RaceCounts : NonceFetched(s, count)
    \/ \E s \in Slots : NonceFetchFailed(s)
    \/ \E s \in Slots, p \in RacePrices : GasPriceFetched(s, p)
    \/ \E s \in Slots : GasPriceFetchFailed(s)
    \/ \E s \in Slots, e \in RaceEstimates : GasEstimated(s, e)
    \/ \E s \in Slots : GasEstimateFailed(s)
    \/ \E s \in Slots : Signed(s)
    \/ \E s \in Slots : SignFailed(s)
    \/ \E s \in Slots : BroadcastConfirmed(s)
    \/ \E s \in Slots : BroadcastFailed(s)
    \/ \E s \in Slots : Return(s)

\* One instance, its whole nonce interface, every call awaited.
SpecApi == Init /\ [][NextApi]_vars

\* ---------------------------------------- the fields of the transaction
\* what a caller can put into its txObject beside to, value and data
TxObjects ==
    {gas @@ nonce @@ chainId @@ from @@ PlainTx :
        gas \in {NoFields, "gas" :> CallerGas},
        nonce \in {NoFields, "nonce" :> CallerNonce},
        chainId \in {NoFields, "chainId" :> CallerChainId},
        from \in {NoFields, "from" :> "0xOther"}}

\* sendTransaction(txObject, methodName, network), awaited
SendTransactionWith(s, network, txObject) ==
    /\ \A t \in Slots : calls[t].pc = "free"
    /\ callCount < MaxTxCalls
    /\ SendTransactionObj(s, network, txObject)

NextTx ==
    \/ \E s \in Slots, network \in AnyNetworks, txObject \in TxObjects :
          SendTransactionWith(s, network, txObject)
    \/ \E s \in Slots, count \in RaceCounts : NonceFetched(s, count)
    \/ \E s \in Slots : NonceFetchFailed(s)
    \/ \E s \in Slots, p \in RacePrices : GasPriceFetched(s, p)
    \/ \E s \in Slots : GasPriceFetchFailed(s)
    \/ \E s \in Slots, e \in RaceEstimates : GasEstimated(s, e)
    \/ \E s \in Slots : GasEstimateFailed(s)
    \/ \E s \in Slots : Signed(s)
    \/ \E s \in Slots : SignFailed(s)
    \/ \E s \in Slots : BroadcastConfirmed(s)
    \/ \E s \in Slots : BroadcastFailed(s)
    \/ \E s \in Slots : Return(s)

\* Awaited sendTransaction calls, for every txObject.
SpecTx == Init /\ [][NextTx]_vars

\* ------------------------------------------------------- two instances
\* A second instance runs the same code on its own fields.  Both instances take
\* their logger from the one logger module, whose _lastWalletNum every
\* setWalletNum writes.
PeerNonceOf_Shared(network) == NonceOf(network)

\* this.sepoliaNonce / this.currentNonce of the second instance
PeerNonceOf(network) ==
    IF network = "sepolia" THEN peer.sepoliaNonce ELSE peer.currentNonce

PeerWithNonce(network, v) ==
    IF network = "sepolia"
    THEN [peer EXCEPT !.sepoliaNonce = v]
    ELSE [peer EXCEPT !.currentNonce = v]

PeerFrame ==
    UNCHANGED <<nonceVars, gas_price_multiplier, calls, callCount, historyVars,
                gasCall, estCall, apiCall, lastWalletNum, opsVars, auxVars>>

\* sendTransaction of the second instance, each call awaited by its caller
PeerSendTransaction(network) ==
    /\ peer.pc = "free"
    /\ peer.callCount < MaxRaceCalls
    /\ peer' = [peer EXCEPT
          !.pc = IF NeedsFetch(PeerNonceOf(network)) THEN "nonceFetch" ELSE "gasPrice",
          !.network = network,
          !.nonce = PeerNonceOf(network),
          !.gasPrice = Null, !.gas = Null, !.failedAt = "none",
          !.callCount = @ + 1]
    /\ PeerFrame

PeerNonceFetched(count) ==
    /\ peer.pc = "nonceFetch"
    /\ peer' = [PeerWithNonce(peer.network, count) EXCEPT
          !.pc = "gasPrice", !.nonce = count,
          !.firstFetched = IF @ = Null THEN count ELSE @]
    /\ PeerFrame

PeerCaught(from, step) ==
    /\ peer.pc = from
    /\ peer' = [peer EXCEPT !.pc = "done", !.failedAt = step]
    /\ PeerFrame

PeerNonceFetchFailed == PeerCaught("nonceFetch", "nonce")

PeerGasPriceFetched(networkGasPrice) ==
    /\ peer.pc = "gasPrice"
    /\ peer' = [peer EXCEPT !.pc = "estimate",
          !.gasPrice = getGasPrice(TRUE, networkGasPrice, gas_price_multiplier,
                                   SendRetryCount)]
    /\ PeerFrame

PeerGasEstimated(estimatedGas) ==
    /\ peer.pc = "estimate"
    /\ peer' = [peer EXCEPT !.pc = "sign",
          !.gas = TxGas(Null, estimateGas(TRUE, estimatedGas))]
    /\ PeerFrame

PeerSigned ==
    /\ peer.pc = "sign"
    /\ peer' = [PeerWithNonce(peer.network, IncrementedNonce(PeerNonceOf(peer.network)))
                   EXCEPT !.pc = "broadcast", !.signed = Append(@, peer.nonce)]
    /\ PeerFrame

PeerSignFailed == PeerCaught("sign", "sign")

PeerBroadcastConfirmed ==
    /\ peer.pc = "broadcast"
    /\ peer' = [peer EXCEPT !.pc = "done"]
    /\ PeerFrame

PeerBroadcastFailed == PeerCaught("broadcast", "broadcast")

PeerReturn ==
    /\ peer.pc = "done"
    /\ peer' = [peer EXCEPT !.pc = "free", !.nonce = Null, !.gasPrice = Null,
                            !.gas = Null, !.failedAt = "none"]
    /\ PeerFrame

\* resetNonce of the second instance, once in a behaviour
PeerResetNonce(network) ==
    /\ peer.resets = 0
    /\ peer' = [PeerWithNonce(network, ResetValue) EXCEPT
          !.resets = @ + 1, !.firstFetched = Null]
    /\ PeerFrame

\* setWalletNum(num) of either instance: this.logger = logger.getInstance(num), which
\* sets the logger module's _lastWalletNum
SetWalletNum(num) ==
    /\ lastWalletNum # num
    /\ lastWalletNum' = num
    /\ UNCHANGED <<nonceVars, gas_price_multiplier, calls, callCount, historyVars,
                   gasCall, estCall, apiCall, peer, opsVars, auxVars>>

\* sendTransaction of the first instance, each call awaited by its caller
SendTransactionPaired(s, network) ==
    /\ \A t \in Slots : calls[t].pc = "free"
    /\ callCount < MaxRaceCalls
    /\ SendTransaction(s, network)

NextTwo ==
    \/ \E s \in Slots : SendTransactionPaired(s, "fhenix")
    \/ \E s \in Slots, count \in RaceCounts : NonceFetched(s, count)
    \/ \E s \in Slots : NonceFetchFailed(s)
    \/ \E s \in Slots, p \in RacePrices : GasPriceFetched(s, p)
    \/ \E s \in Slots, e \in RaceEstimates : GasEstimated(s, e)
    \/ \E s \in Slots : Signed(s)
    \/ \E s \in Slots : SignFailed(s)
    \/ \E s \in Slots : BroadcastConfirmed(s)
    \/ \E s \in Slots : BroadcastFailed(s)
    \/ \E s \in Slots : Return(s)
    \/ ResetNonceOnce("fhenix")
    \/ PeerSendTransaction("fhenix")
    \/ \E count \in RaceCounts : PeerNonceFetched(count)
    \/ PeerNonceFetchFailed
    \/ \E p \in RacePrices : PeerGasPriceFetched(p)
    \/ \E e \in RaceEstimates : PeerGasEstimated(e)
    \/ PeerSigned
    \/ PeerSignFailed
    \/ PeerBroadcastConfirmed
    \/ PeerBroadcastFailed
    \/ PeerReturn
    \/ PeerResetNonce("fhenix")
    \/ \E num \in WalletNums : SetWalletNum(num)

\* Two instances, their calls interleaved at every await.  The gas calls answer:
\* their failures change no counter (see SpecSeq).
SpecTwo == Init /\ [][NextTwo]_vars

\* ------------------------------------------- getGasPrice and estimateGas
\* what eth_gasPrice answers a standalone getGasPrice call with: small amounts around
\* the minimum, amounts around the maximum, the scenarios' 10 and 1000 gwei, and an
\* amount beyond the doubles
GasPrices ==
    (0 .. MaxSmallPrice)
        \cup {ToWei(10), ToWei(40), ToWei(42), ToWei(MAX_GWEI) - 1, ToWei(MAX_GWEI),
              ToWei(MAX_GWEI) + 1, ToWei(1000), HugePrice}
\* the retry counts: small ones, and one at which Math.pow overflows
RetryCounts == (0 .. MaxRetry) \cup {PowInfinityAt}
GasEstimates == (0 .. MaxEstimate) \cup {21000, 21001}

\* getGasPrice(retryCount) is called and eth_gasPrice answers
GetGasPrice(retryCount, networkGasPrice) ==
    /\ gasCall' = [made |-> TRUE, fetchOk |-> TRUE, price |-> networkGasPrice,
                   retry |-> retryCount,
                   out |-> getGasPrice(TRUE, networkGasPrice, gas_price_multiplier,
                                       retryCount)]
    /\ UNCHANGED <<nonceVars, gas_price_multiplier, calls, callCount, historyVars, estCall,
                   apiCall, otherVars>>

\* getGasPrice(retryCount) is called and eth_gasPrice fails
GetGasPriceFetchFailed(retryCount) ==
    /\ gasCall' = [made |-> TRUE, fetchOk |-> FALSE, price |-> 0, retry |-> retryCount,
                   out |-> getGasPrice(FALSE, 0, gas_price_multiplier, retryCount)]
    /\ UNCHANGED <<nonceVars, gas_price_multiplier, calls, callCount, historyVars, estCall,
                   apiCall, otherVars>>

\* estimateGas(txObject) is called and eth_estimateGas answers
EstimateGas(estimatedGas) ==
    /\ estCall' = [made |-> TRUE, ok |-> TRUE, estimate |-> estimatedGas,
                   out |-> estimateGas(TRUE, estimatedGas)]
    /\ UNCHANGED <<nonceVars, gas_price_multiplier, calls, callCount, historyVars, gasCall,
                   apiCall, otherVars>>

\* estimateGas(txObject) is called and eth_estimateGas fails or reverts
EstimateGasFailed ==
    /\ estCall' = [made |-> TRUE, ok |-> FALSE, estimate |-> 0,
                   out |-> estimateGas(FALSE, 0)]
    /\ UNCHANGED <<nonceVars, gas_price_multiplier, calls, callCount, historyVars, gasCall,
                   apiCall, otherVars>>

InitGas ==
    /\ InitCommon
    /\ gas_price_multiplier \in ConfigMultipliers
    /\ randomization = DefaultRandomization

NextGas ==
    \/ \E k \in RetryCounts, p \in GasPrices : GetGasPrice(k, p)
    \/ \E k \in RetryCounts : GetGasPriceFetchFailed(k)
    \/ \E e \in GasEstimates : EstimateGas(e)
    \/ EstimateGasFailed

\* The two computations on their own, over every input.
SpecGas == InitGas /\ [][NextGas]_vars

NextLegacyGas ==
    \/ \E p \in GasPrices : GetGasPrice(0, p)
    \/ GetGasPriceFetchFailed(0)
    \/ \E p \in GasPrices : BridgeGetGasPrice(p)
    \/ BridgeGetGasPriceFetchFailed

\* getGasPrice of the core and of the legacy Bridge, side by side over every price.
SpecLegacyGas == InitGas /\ [][NextLegacyGas]_vars

\* ---------------------------------------- every call but resetNonce
\* the calls made so far: getNonce, incrementNonce, sendTransaction, and one each of
\* getGasPrice, estimateGas and getBalance
Made(call) == IF call.made THEN 1 ELSE 0
NonceCallBudget ==
    apiCall.seq + callCount + Made(gasCall) + Made(estCall) + Made(balanceCall)
        < MaxNonceCalls
\* a getGasPrice, estimateGas or getBalance call can be made
QueryBudget(call) == ApiIdle /\ NonceCallBudget /\ ~call.made

NextNoReset ==
    \/ \E network \in AnyNetworks : NonceCallBudget /\ GetNonce(network)
    \/ \E count \in RaceCounts : GetNonceFetched(count)
    \/ GetNonceFetchFailed
    \/ \E network \in AnyNetworks : NonceCallBudget /\ IncrementNonce(network)
    \/ \E s \in Slots, network \in AnyNetworks :
          NonceCallBudget /\ SendTransactionDirect(s, network, Null)
    \/ \E s \in Slots, count \in RaceCounts : NonceFetched(s, count)
    \/ \E s \in Slots : NonceFetchFailed(s)
    \/ \E s \in Slots, p \in RacePrices : GasPriceFetched(s, p)
    \/ \E s \in Slots : GasPriceFetchFailed(s)
    \/ \E s \in Slots, e \in RaceEstimates : GasEstimated(s, e)
    \/ \E s \in Slots : GasEstimateFailed(s)
    \/ \E s \in Slots : Signed(s)
    \/ \E s \in Slots : SignFailed(s)
    \/ \E s \in Slots : BroadcastConfirmed(s)
    \/ \E s \in Slots : BroadcastFailed(s)
    \/ \E s \in Slots : Return(s)
    \/ \E p \in RacePrices : QueryBudget(gasCall) /\ GetGasPrice(0, p)
    \/ QueryBudget(gasCall) /\ GetGasPriceFetchFailed(0)
    \/ \E e \in RaceEstimates : QueryBudget(estCall) /\ EstimateGas(e)
    \/ QueryBudget(estCall) /\ EstimateGasFailed
    \/ \E network \in AnyNetworks, queryOk \in BOOLEAN, balance \in QueriedBalances :
          QueryBudget(balanceCall) /\ GetBalance(network, queryOk, balance)

\* One instance, every call of its interface but resetNonce, each awaited.
SpecNoReset == Init /\ [][NextNoReset]_vars

\* ---------------------------------------------------------- properties
HasSigned(s) ==
    \/ calls[s].pc = "broadcast"
    \/ calls[s].pc = "done" /\ calls[s].failedAt \in {"none", "broadcast"}

CallOf(entry) == entry[1]
NonceIn(entry) == entry[2]

\* C1: Awaited calls, no resetNonce on the network: the i-th transaction signed on it
\* carries nonce n0 + (i - 1), n0 the count fetched first, and transactions are signed
\* in call order, whether the broadcasts succeed or fail.  When every call is signed,
\* the i-th transaction is the i-th call's.
C1_ContiguousNonces ==
    \A n \in Networks :
        resets[n] = 0 =>
            \A i \in 1 .. Len(signedLog[n]) :
                /\ NonceIn(signedLog[n][i]) = firstFetched[n] + (i - 1)
                /\ i > 1 => CallOf(signedLog[n][i - 1]) < CallOf(signedLog[n][i])

\* three calls on one network, all three signed, the third one's broadcast failed
C1_Witness ==
    /\ resets["fhenix"] = 0
    /\ Len(signedLog["fhenix"]) = 3
    /\ \A i \in 1 .. 3 : signedLog["fhenix"][i] = <<i, firstFetched["fhenix"] + (i - 1)>>
    /\ \E s \in Slots : calls[s].pc = "done" /\ calls[s].failedAt = "broadcast"

NoncesInCallOrder(n) ==
    \A i, j \in 1 .. Len(signedLog[n]) :
        CallOf(signedLog[n][i]) < CallOf(signedLog[n][j])
            => NonceIn(signedLog[n][i]) < NonceIn(signedLog[n][j])

\* C2 as claimed: no resetNonce: a call made before another is signed with a strictly
\* smaller nonce, for every interleaving of the two calls.
C2_CallOrderAnyInterleaving ==
    \A n \in Networks : resets[n] = 0 => NoncesInCallOrder(n)

\* C2 as amended: no resetNonce, and every call is made after the calls before it on
\* the network have incremented the nonce (or have ended): a call made before
\* another is signed with a strictly smaller nonce.
C2_CallOrderAfterIncrement ==
    \A n \in Networks : (resets[n] = 0 /\ ~racing[n]) => NoncesInCallOrder(n)

\* B was made while A's broadcast was pending, both are signed, A is still pending
C2_Witness ==
    /\ resets["fhenix"] = 0
    /\ ~racing["fhenix"]
    /\ Len(signedLog["fhenix"]) = 2
    /\ \E a, b \in Slots :
          /\ calls[a].pc = "broadcast"
          /\ calls[b].pc = "broadcast"
          /\ calls[a].seq < calls[b].seq
          /\ calls[a].nonce < calls[b].nonce

C4_AlwaysAResult ==
    \A s \in Slots :
        /\ calls[s].result.settled # "rejected"
        /\ calls[s].pc = "done" =>
              /\ calls[s].result.settled = "resolved"
              /\ calls[s].result.success <=> calls[s].failedAt = "none"
              /\ calls[s].result.success =>
                    /\ calls[s].result.keys = {"success", "txHash", "receipt"}
              /\ ~calls[s].result.success =>
                    /\ calls[s].result.keys = {"success", "error", "details"}
                    /\ calls[s].result.detailKeys = {"message", "code", "data", "reason"}
        /\ calls[s].pc # "done" => calls[s].result.settled = "pending"

\* both gas calls failed and the call still succeeded
C4_Witness ==
    \E s \in Slots :
        /\ calls[s].pc = "done" /\ calls[s].result.success
        /\ calls[s].gpFailed /\ calls[s].estFailed

\* C5: whatever the raw price, the configured multiplier and the retry count, and
\* when the fetch fails, getGasPrice returns a price in [MIN_GWEI, MAX_GWEI] (in wei).
C5_GasPriceInBand ==
    gasCall.made => (ToWei(MIN_GWEI) <= gasCall.out /\ gasCall.out <= ToWei(MAX_GWEI))

\* a price beyond the doubles comes back as a price inside the band
C5_Witness ==
    gasCall.made /\ gasCall.fetchOk /\ gasCall.price = HugePrice
        /\ gasCall.out = ToWei(MIN_GWEI)

\* the multiplier in effect and the exact product price * multiplier * 1.3^k as the
\* fraction ProductNum / ProductDen
EffectiveTenths == IF gas_price_multiplier = 0 THEN PRICE_MULTIPLIER ELSE gas_price_multiplier
ProductNum == gasCall.price * EffectiveTenths * Pow(RETRY_INCREASE, gasCall.retry)
ProductDen == 10 * Pow(10, gasCall.retry)
\* out is clamp(floor(ProductNum / ProductDen), min, max)
IsClampedFloor(out) ==
    \/ ProductNum < ToWei(MIN_GWEI) * ProductDen /\ out = ToWei(MIN_GWEI)
    \/ ProductNum >= (ToWei(MAX_GWEI) + 1) * ProductDen /\ out = ToWei(MAX_GWEI)
    \/ /\ ToWei(MIN_GWEI) <= out /\ out <= ToWei(MAX_GWEI)
       /\ out * ProductDen <= ProductNum
       /\ ProductNum < (out + 1) * ProductDen
\* the price or the retry factor is beyond the doubles
BeyondDoubles == gasCall.price = HugePrice \/ gasCall.retry >= PowInfinityAt
Scenarios ==
    /\ (gasCall.fetchOk /\ EffectiveTenths = 12 /\ gasCall.retry = 0
            /\ gasCall.price = ToWei(10)) => gasCall.out = ToWei(12)
    /\ (gasCall.fetchOk /\ EffectiveTenths = 12 /\ gasCall.retry = 0
            /\ gasCall.price = ToWei(1000)) => gasCall.out = ToWei(50)

\* C6 as claimed: when the fetch succeeds, getGasPrice(k) returns
\* clamp(floor(price * multiplier * 1.3^k), min, max): a positive price with a
\* product beyond every bound gives the maximum.
C6_ClampedFloorAlways ==
    (gasCall.made /\ gasCall.fetchOk) =>
        IF BeyondDoubles
        THEN gasCall.out = (IF gasCall.price = 0 THEN ToWei(MIN_GWEI) ELSE ToWei(MAX_GWEI))
        ELSE IsClampedFloor(gasCall.out)

\* C6 as amended: when the fetch succeeds and the product is a finite double,
\* getGasPrice(k) returns clamp(floor(price * multiplier * 1.3^k), min, max), 12 gwei
\* and 50 gwei in the two scenarios; when the product is not finite it returns the
\* minimum.
C6_ClampedFloorWhenFinite ==
    (gasCall.made /\ gasCall.fetchOk) =>
        /\ ~BeyondDoubles => IsClampedFloor(gasCall.out)
        /\ BeyondDoubles => gasCall.out = ToWei(MIN_GWEI)
        /\ Scenarios

\* 10 gwei at 1.2 gives 12 gwei
C6_Witness ==
    /\ gasCall.made /\ gasCall.fetchOk /\ gasCall.retry = 0
    /\ gas_price_multiplier = 12
    /\ gasCall.price = ToWei(10)
    /\ gasCall.out = ToWei(12)

PriceAt(k) == getGasPrice(TRUE, gasCall.price, gas_price_multiplier, k)

C8_GasPriceFallback ==
    /\ \A s \in Slots :
          calls[s].gpFailed =>
              /\ calls[s].pc \in {"estimate", "sign", "broadcast", "done"}
              /\ calls[s].gasPrice = ToWei(MIN_GWEI)
              /\ calls[s].result.settled # "rejected"
              /\ (calls[s].pc = "done" /\ calls[s].failedAt = "none")
                     => calls[s].result.success
    /\ \A k \in RetryCounts :
          getGasPrice(FALSE, 0, gas_price_multiplier, k) = ToWei(MIN_GWEI)

\* only the gas-price fetch failed, and the call succeeded with the minimum price
C8_Witness ==
    \E s \in Slots :
        /\ calls[s].pc = "done" /\ calls[s].result.success
        /\ calls[s].gpFailed /\ ~calls[s].estFailed
        /\ calls[s].gasPrice = ToWei(MIN_GWEI)

\* C9: a call whose gas estimation failed carries DEFAULT_GAS as its gas limit, goes
\* on to signing and broadcast and never rejects.
C9_EstimateFallback ==
    \A s \in Slots :
        calls[s].estFailed =>
            /\ calls[s].pc \in {"sign", "broadcast", "done"}
            /\ calls[s].gas = DEFAULT_GAS
            /\ calls[s].result.settled # "rejected"
            /\ (calls[s].pc = "done" /\ calls[s].failedAt = "none")
                   => calls[s].result.success

\* only the estimation failed, the transaction is signed and its broadcast pending
C9_Witness ==
    \E s \in Slots :
        /\ calls[s].pc = "broadcast"
        /\ calls[s].estFailed /\ ~calls[s].gpFailed
        /\ calls[s].gas = DEFAULT_GAS

\* C10 as claimed: estimateGas returns ceil(1.2 * e) for an estimate e.
C10_BufferRoundedUp ==
    (estCall.made /\ estCall.ok) =>
        /\ 10 * (estCall.out - 1) < 12 * estCall.estimate
        /\ 12 * estCall.estimate <= 10 * estCall.out

\* C10 as amended: estimateGas returns floor(1.2 * e) for an estimate e.
C10_BufferRoundedDown ==
    (estCall.made /\ estCall.ok) =>
        /\ 10 * estCall.out <= 12 * estCall.estimate
        /\ 12 * estCall.estimate < 10 * (estCall.out + 1)

\* 21001 gives 25201, not 25202
C10_Witness ==
    estCall.made /\ estCall.ok /\ estCall.estimate = 21001 /\ estCall.out = 25201

\* a sendTransaction call whose getNonce has returned
HasNonce(s) ==
    /\ calls[s].pc \notin {"free", "nonceFetch"}
    /\ calls[s].failedAt # "nonce"

\* C11: the first getNonce after resetNonce(network), called directly or by
\* sendTransaction, starts exactly one eth_getTransactionCount fetch and returns what
\* that fetch answers, whatever calls were made and ended before the reset.
C11_FreshAfterReset ==
    /\ (apiCall.op = "getNonce" /\ apiCall.afterReset) =>
          /\ apiCall.fetches = 1
          /\ apiCall.pc = "returned" =>
                (apiCall.answer # Null /\ apiCall.out = apiCall.answer)
    /\ \A s \in Slots :
          (calls[s].pc # "free" /\ calls[s].afterReset) =>
              /\ calls[s].fetches = 1
              /\ HasNonce(s) =>
                    (calls[s].answer # Null /\ calls[s].nonce = calls[s].answer)

\* a call signed with LowCount + 1 left at least LowCount + 2 in the counter; after
\* resetNonce, getNonce fetched and returned LowCount
C11_Witness ==
    /\ apiCall.op = "getNonce" /\ apiCall.afterReset /\ apiCall.pc = "returned"
    /\ apiCall.network = "fhenix"
    /\ apiCall.out = LowCount
    /\ Len(signedLog["fhenix"]) = 1
    /\ NonceIn(signedLog["fhenix"][1]) = LowCount + 1

NoResetSince(s) == resets[Tracked(calls[s].network)] = calls[s].resetsAtCall

C14_AheadAfterFailedBroadcast ==
    /\ [](\A n \in Networks :
            track[n].lastFailed # Null => NonceOf(n) = track[n].lastFailed + 1)
    /\ [](\A s \in Slots :
            calls[s].afterFailed # Null =>
                /\ calls[s].fetches = 0
                /\ calls[s].nonce = calls[s].afterFailed + 1
                /\ HasSigned(s) =>
                      signedLog[calls[s].network][Len(signedLog[calls[s].network])]
                          = <<calls[s].seq, calls[s].afterFailed + 1>>)
    /\ [][\A n \in Networks :
            (track[n].lastFailed # Null /\ NonceOf(n)' # NonceOf(n))
                => (NonceOf(n)' = Null /\ resets'[n] = resets[n] + 1)]_vars

\* the call after a failed broadcast of nonce n is signed with n + 1
C14_Witness ==
    \E s \in Slots :
        /\ calls[s].pc = "broadcast"
        /\ calls[s].afterFailed # Null
        /\ calls[s].nonce = calls[s].afterFailed + 1
        /\ signedLog[calls[s].network] =
              <<<<calls[s].seq - 1, calls[s].afterFailed>>,
                <<calls[s].seq, calls[s].afterFailed + 1>>>>

\* the gas price of call s, as getGasPrice gives it for retryCount 0
PriceAtFirstAttempt(s) ==
    IF calls[s].gpFailed
    THEN getGasPrice(FALSE, 0, gas_price_multiplier, 0)
    ELSE getGasPrice(TRUE, calls[s].rawPrice, gas_price_multiplier, 0)

\* C15: a sendTransaction call issues at most one signTransaction and at most one
\* sendSignedTransaction, none after the step that failed, and its gas price is
\* getGasPrice's for retryCount 0, whichever step fails.
C15_NoInternalRetry ==
    \A s \in Slots :
        /\ calls[s].signs <= 1
        /\ calls[s].broadcasts <= 1
        /\ calls[s].gasRetry \in {Null, 0}
        /\ calls[s].pc \in {"estimate", "sign", "broadcast"}
              => (calls[s].gasRetry = 0 /\ calls[s].gasPrice = PriceAtFirstAttempt(s))
        /\ calls[s].failedAt = "nonce"
              => (calls[s].signs = 0 /\ calls[s].broadcasts = 0
                  /\ calls[s].gasRetry = Null)
        /\ calls[s].failedAt = "sign"
              => (calls[s].signs = 1 /\ calls[s].broadcasts = 0
                  /\ calls[s].gasPrice = PriceAtFirstAttempt(s))
        /\ calls[s].failedAt = "broadcast"
              => (calls[s].signs = 1 /\ calls[s].broadcasts = 1
                  /\ calls[s].gasPrice = PriceAtFirstAttempt(s))

\* a call that ended on a failed broadcast: one signature, one broadcast, the price
\* of the first attempt, below the maximum
C15_Witness ==
    \E s \in Slots :
        /\ calls[s].pc = "done" /\ calls[s].failedAt = "broadcast"
        /\ calls[s].signs = 1 /\ calls[s].broadcasts = 1
        /\ calls[s].gasRetry = 0
        /\ calls[s].rawPrice = ToWei(10)
        /\ calls[s].gasPrice = ToWei(11)

\* C16: two instances, their sendTransaction and resetNonce calls interleaved at
\* every await, and setWalletNum calls writing the shared logger: a step of one
\* instance leaves the counters and the signed transactions of the other unchanged,
\* a write to the logger leaves both unchanged, and each instance signs, until its
\* resetNonce, with the nonces it signs with when it runs alone: the count it fetched
\* first, then one more for each transaction.
C16_InstancesIndependent ==
    /\ [](peer.resets = 0 =>
            \A i \in 1 .. Len(peer.signed) :
                peer.signed[i] = peer.firstFetched + (i - 1))
    /\ [](resets["fhenix"] = 0 =>
            \A i \in 1 .. Len(signedLog["fhenix"]) :
                NonceIn(signedLog["fhenix"][i]) = firstFetched["fhenix"] + (i - 1))
    /\ [][/\ (calls' # calls \/ resets' # resets) => peer' = peer
          /\ peer' # peer => UNCHANGED <<currentNonce, sepoliaNonce, signedLog>>
          /\ lastWalletNum' # lastWalletNum
                => UNCHANGED <<currentNonce, sepoliaNonce, signedLog, peer>>]_vars

\* both instances fetched LowCount and signed two transactions each, with the same
\* two nonces, while the first one's second broadcast was pending; the logger was
\* written in between
C16_Witness ==
    /\ peer.resets = 0 /\ resets["fhenix"] = 0
    /\ peer.signed = <<LowCount, LowCount + 1>>
    /\ signedLog["fhenix"] = <<<<1, LowCount>>, <<2, LowCount + 1>>>>
    /\ \E s \in Slots : calls[s].pc = "broadcast"
    /\ peer.currentNonce = LowCount + 2
    /\ currentNonce = LowCount + 2
    /\ lastWalletNum = 1

\* the counter a call with this network value must leave alone is unchanged
OtherCounterKept(network) ==
    IF network = "sepolia" THEN currentNonce' = currentNonce
                           ELSE sepoliaNonce' = sepoliaNonce

\* the network of the sendTransaction call in slot s that takes this step
SteppingNetwork(s) ==
    IF calls[s].pc = "free" THEN calls'[s].network ELSE calls[s].network

\* the network of the direct call that takes this step
SteppingApiNetwork ==
    IF apiCall.pc = "fetch" THEN apiCall.network ELSE apiCall'.network

\* C17: every step of getNonce, incrementNonce, resetNonce and sendTransaction called
\* with 'sepolia' leaves currentNonce unchanged, and called with any other network
\* value leaves sepoliaNonce unchanged; getNonce returns, incrementNonce adds one to
\* and resetNonce clears the counter of its network: sepoliaNonce for 'sepolia',
\* currentNonce otherwise.
C17_PerNetworkFrame ==
    [][/\ \A s \in Slots :
             calls'[s] # calls[s] => OtherCounterKept(SteppingNetwork(s))
       /\ apiCall' # apiCall =>
             /\ OtherCounterKept(SteppingApiNetwork)
             /\ (apiCall'.op = "getNonce" /\ apiCall'.pc = "returned") =>
                   apiCall'.out = (IF apiCall'.network = "sepolia"
                                   THEN sepoliaNonce' ELSE currentNonce')
             /\ apiCall'.op = "incrementNonce" =>
                   IF apiCall'.network = "sepolia"
                   THEN sepoliaNonce # Null => sepoliaNonce' = sepoliaNonce + 1
                   ELSE currentNonce # Null => currentNonce' = currentNonce + 1
             /\ apiCall'.op = "resetNonce" =>
                   IF apiCall'.network = "sepolia"
                   THEN sepoliaNonce' = Null ELSE currentNonce' = Null]_vars

\* incrementNonce('mainnet') has moved currentNonce, and sepoliaNonce holds the
\* count fetched for 'sepolia'
C17_Witness ==
    /\ apiCall.op = "incrementNonce" /\ apiCall.network = "mainnet"
    /\ apiCall.cachedAt = LowCount
    /\ currentNonce = LowCount + 1
    /\ sepoliaNonce = LowCount

\* C18 as claimed: when the caller's txObject carries a gas value, the transaction
\* that is signed and broadcast has that value as its gas limit.
C18_GasOverrideUsed ==
    \A s \in Slots :
        (calls[s].txGas # Null /\ calls[s].pc \in {"sign", "broadcast"})
            => calls[s].gas = calls[s].txGas

\* a transaction signed and broadcast with the buffered estimate 25201 for a
\* txObject that asked for CallerGas
C18_OverrideDropped ==
    \E s \in Slots :
        /\ calls[s].pc = "broadcast"
        /\ calls[s].txGas = CallerGas
        /\ ~calls[s].estFailed
        /\ calls[s].gas = 25201

\* ------------------------------------------------ the operation sequence: properties
\* the known operations a configuration asks for
KnownToRun == {op \in {allOperations[i] : i \in 1 .. Len(allOperations)} :
                  op \in OperationsToRun(randomization)}
\* the operations of a set, in registry order
InRegistryOrder(ops) == SelectSeq(allOperations, LAMBDA op : op \in ops)

\* C19: the loop over a wallet's operations, in main of index.js and in
\* OperationRegistry.executeAll, starts every operation of the sequence exactly once
\* and in sequence order: what has been started is always the sequence up to the
\* current position, a finished loop has started all of it, and after an operation
\* has returned false or thrown the next one can still be started.
C19_AllOperationsStarted ==
    /\ runner.pc = "loop" => runner.started = SubSeq(runner.operations, 1, runner.index - 1)
    /\ runner.pc = "awaiting" => runner.started = SubSeq(runner.operations, 1, runner.index)
    /\ runner.pc = "finished" => runner.started = runner.operations
    /\ runner.pc = "loop" /\ runner.failedAt > 0 /\ Len(runner.started) < Len(runner.operations)
          => ENABLED OperationStarts

\* the first of three operations failed and the loop still started all three
C19_Witness ==
    /\ runner.pc = "finished"
    /\ runner.failedAt = 1
    /\ Len(runner.operations) = 3
    /\ runner.started = runner.operations

\* C20: getRandomizedOperations returns each known operation named in
\* operations_to_run exactly once and nothing else; the operations listed in
\* excluded_operations come first, in registry order; the rest follow as a
\* permutation of the remaining ones, in registry order when enable is false.
C20_RandomizedOperations ==
    runner.kind = "main" =>
        LET ops == runner.operations
            fixed == KnownToRun \cap randomization.excluded_operations
            rest == KnownToRun \ randomization.excluded_operations
            n == Cardinality(fixed)
        IN  /\ Len(ops) = Cardinality(KnownToRun)
            /\ {ops[i] : i \in 1 .. Len(ops)} = KnownToRun
            /\ SubSeq(ops, 1, n) = InRegistryOrder(fixed)
            /\ {ops[i] : i \in (n + 1) .. Len(ops)} = rest
            /\ ~randomization.enable => SubSeq(ops, n + 1, Len(ops)) = InRegistryOrder(rest)

\* bridge is excluded and stays first, the other two come out swapped; the
\* configuration also lists a name that is no operation
C20_Witness ==
    /\ runner.kind = "main"
    /\ randomization.enable
    /\ randomization.excluded_operations = {"bridge"}
    /\ "random_contract" \in OperationsToRun(randomization)
    /\ runner.operations = <<"bridge", "contract_deploy", "transfer">>

\* ------------------------------------------ executeTransferOperation: properties
\* C21 as claimed: for every configured max_retries >= 0, executeTransferOperation
\* calls transferToSelf no more than max_retries times, makes no call after one
\* that returned true, and has waited min(300, base_wait_time * 2^attempt) seconds
\* after each failed attempt but the last.
C21_AtMostMaxRetries ==
    (transferOp.enabled /\ transferOp.max_retries # Null) =>
        /\ transferOp.called <= transferOp.max_retries
        /\ transferOp.success => transferOp.pc \in {"addRandomDelay", "returned"}
        /\ transferOp.success => transferOp.called = transferOp.attempt + 1
        /\ transferOp.base_wait_time # Null =>
              \A i \in 1 .. Len(transferOp.waits) :
                  LET product == transferOp.base_wait_time * Pow(2, i)
                  IN  transferOp.waits[i] = IF product < 300 THEN product ELSE 300
        /\ transferOp.pc = "returned" /\ ~transferOp.success
              => Len(transferOp.waits) = transferOp.called - 1

\* max_retries is configured as 0 and transferToSelf has been called five times
C21_ZeroRetriesFiveCalls ==
    /\ transferOp.pc = "returned"
    /\ transferOp.max_retries = 0
    /\ transferOp.called = 5
    /\ ~transferOp.result

\* ------------------------------------------ stand-alone TokenTransfer: properties
\* C22 as claimed: executeTransfer of the stand-alone TokenTransfer increments
\* currentNonce only after signTransaction has succeeded: while signing is pending
\* and after it has failed the counter is the nonce the call read, and a call
\* skipped for a zero balance or a non-positive amount leaves the counter as it was
\* (just fetched, for the first call).
C22_IncrementOnlyAfterSign ==
    /\ tokenTransfer.pc = "signTransaction" => tokenTransfer.currentNonce = tokenTransfer.nonce
    /\ tokenTransfer.outcome = "signFailed" => tokenTransfer.currentNonce = tokenTransfer.nonce
    /\ tokenTransfer.outcome = "zeroBalance" => tokenTransfer.currentNonce = tokenTransfer.before
    /\ tokenTransfer.outcome = "lowAmount" => tokenTransfer.currentNonce = tokenTransfer.nonce

\* signTransaction has failed and the counter is one past the nonce the call read
C22_SignFailedCounterAhead ==
    /\ tokenTransfer.pc = "idle"
    /\ tokenTransfer.outcome = "signFailed"
    /\ tokenTransfer.nonce = LowCount
    /\ tokenTransfer.currentNonce = LowCount + 1

\* ------------------------------------------ legacy Bridge getGasPrice: properties
\* C23 as claimed: the legacy Bridge's getGasPrice returns a price inside
\* [MIN_GWEI, MAX_GWEI] for every network gas price, and the minimum gas price when
\* the fetch fails.
C23_LegacyGasPriceInBand ==
    bridgeGas.made =>
        /\ bridgeGas.out >= ToWei(MIN_GWEI)
        /\ bridgeGas.out <= ToWei(MAX_GWEI)
        /\ ~bridgeGas.fetchOk => bridgeGas.out = ToWei(MIN_GWEI)

\* for a network price of 1000 gwei the core answers MAX_GWEI and the legacy Bridge
\* 1200 gwei
C23_LegacyAboveBand ==
    /\ gasCall.made /\ gasCall.fetchOk /\ gasCall.price = ToWei(1000)
    /\ gasCall.out = ToWei(MAX_GWEI)
    /\ bridgeGas.made /\ bridgeGas.fetchOk /\ bridgeGas.price = ToWei(1000)
    /\ bridgeGas.out = ToWei(1200)

\* C24: incrementNonce on a counter that is null (never fetched, or reset) leaves
\* both counters as they are, and the getNonce that follows it on that counter
\* starts one eth_getTransactionCount fetch and returns what the network answers,
\* which is also what the counter holds until the next call.
C24_IncrementOnNullIsNoop ==
    /\ [][(/\ apiCall'.seq = apiCall.seq + 1
           /\ apiCall'.op = "incrementNonce"
           /\ NonceOf(apiCall'.network) = Null) => UNCHANGED nonceVars]_vars
    /\ []((apiCall.op = "getNonce" /\ apiCall.afterNoop) =>
             /\ apiCall.cachedAt = Null
             /\ apiCall.fetches = 1
             /\ apiCall.pc = "returned" =>
                   /\ apiCall.out = apiCall.answer
                   /\ apiCall.answer \in RaceCounts
                   /\ callCount = apiCall.sent =>
                         NonceOf(apiCall.network) = apiCall.answer)

\* resetNonce, incrementNonce, then getNonce on 'fhenix': the network's count comes back
C24_Witness ==
    /\ apiCall.op = "getNonce" /\ apiCall.afterNoop /\ apiCall.pc = "returned"
    /\ apiCall.seq = 3
    /\ resets["fhenix"] = 1
    /\ apiCall.out = LowCount
    /\ currentNonce = LowCount

C26_BoundedBridgeWait ==
    /\ [](/\ bridgeWait.queried <= 20
          /\ bridgeWait.checks <= bridgeWait.queried
          /\ (bridgeWait.current # Null /\ bridgeWait.current > bridgeWait.initialBalance)
                => (bridgeWait.pc = "returned" /\ bridgeWait.result)
          /\ bridgeWait.pc = "returned" =>
                IF bridgeWait.result
                THEN /\ bridgeWait.current # Null
                     /\ bridgeWait.current > bridgeWait.initialBalance
                     /\ bridgeWait.queried = bridgeWait.checks + 1
                ELSE /\ bridgeWait.checks = 20
                     /\ bridgeWait.queried = 20
          /\ bridgeWait.pc \in {"delay", "getBalance"} => bridgeWait.checks < 20)
    /\ (bridgeWait.pc # "idle") ~> (bridgeWait.pc = "returned")

\* twenty checks without an increase, the last one a failed query: false
C26_Witness ==
    /\ bridgeWait.pc = "returned"
    /\ ~bridgeWait.result
    /\ bridgeWait.queried = 20
    /\ bridgeWait.initialBalance = 1
    /\ bridgeWait.current = 0

\* ------------------------------------------ transferToSelf: properties
\* C27 as claimed: transferToSelf returns true only if at least one executeTransfer
\* call got success: true from sendTransaction, and the number it reports as
\* successful transfers is the number of such calls.
C27_TrueOnlyIfBroadcast ==
    /\ selfTransfer.totalSuccess = selfTransfer.broadcast
    /\ (selfTransfer.pc = "returned" /\ selfTransfer.result) => selfTransfer.broadcast >= 1

\* two transfers on a wallet whose balance is 0 or cannot be read: nothing was
\* broadcast, 2/2 successful transfers are reported and true is returned
C27_TrueWithoutBroadcast ==
    /\ selfTransfer.pc = "returned"
    /\ selfTransfer.result
    /\ selfTransfer.transferCount = 2 /\ selfTransfer.repeatTimes = 1
    /\ selfTransfer.totalSuccess = 2
    /\ selfTransfer.broadcast = 0

\* ------------------------------------------ executeContractOperations: properties
\* C28: executeContractOperations calls callContractMethod only after a deployment
\* whose transaction succeeded; a failed deployment ends it with false and no
\* interaction; and with the contract deployed (and interactions enabled) it makes
\* all interactionCount interactions and returns true, however many of them fail.
C28_NoInteractionWithoutDeployment ==
    /\ contractOp.called > 0 => contractOp.deployed = "yes"
    /\ contractOp.pc \in {"interactionDelay", "callContractMethod"}
          => contractOp.deployed = "yes"
    /\ contractOp.deployed = "no" =>
          /\ contractOp.pc = "returned"
          /\ ~contractOp.result
          /\ contractOp.called = 0
    /\ contractOp.called <= contractOp.interactionCount
    /\ (contractOp.pc = "returned" /\ contractOp.interactionCount > 0) =>
          /\ contractOp.called = contractOp.interactionCount
          /\ contractOp.result

\* three interactions were made although the first two failed
C28_Witness ==
    /\ contractOp.pc = "returned"
    /\ contractOp.deployed = "yes"
    /\ contractOp.interactionCount = 3
    /\ contractOp.called = 3
    /\ contractOp.results = <<FALSE, FALSE, TRUE>>
    /\ contractOp.result

\* ------------------------------------------ the fields of the transaction: properties
TemplateKeys == {"from", "to", "value", "data", "nonce", "chainId"}

\* C29: the transaction handed to signTransaction has the nonce getNonce returned to
\* the call and the chain id of the call's network, whatever nonce and chainId the
\* caller's txObject holds, and it has the same from, to, value, data, nonce and
\* chainId as the template the gas was estimated on.
C29_OwnNonceAndChainId ==
    \A s \in Slots :
        DOMAIN calls[s].tx # {} =>
            /\ calls[s].tx["nonce"] = calls[s].nonce
            /\ calls[s].nonce # Null
            /\ calls[s].tx["chainId"] = ChainIdOf(calls[s].network)
            /\ \A k \in TemplateKeys :
                  /\ k \in DOMAIN calls[s].tx <=> k \in DOMAIN calls[s].txTemplate
                  /\ k \in DOMAIN calls[s].tx => calls[s].tx[k] = calls[s].txTemplate[k]
            /\ DOMAIN calls[s].txTemplate \ {"gas"} = TemplateKeys

\* a txObject with nonce 99 and chainId 1, sent on 'sepolia': the transaction signed
\* and broadcast has the fetched nonce and Sepolia's chain id
C29_Witness ==
    \E s \in Slots :
        /\ calls[s].pc = "broadcast"
        /\ calls[s].network = "sepolia"
        /\ "nonce" \in DOMAIN calls[s].txObject /\ calls[s].txObject["nonce"] = CallerNonce
        /\ "chainId" \in DOMAIN calls[s].txObject
        /\ calls[s].txObject["chainId"] = CallerChainId
        /\ calls[s].tx["nonce"] = LowCount
        /\ calls[s].tx["chainId"] = SEPOLIA_CHAIN_ID

\* ------------------------------------------ every call but resetNonce: properties
\* the sendTransaction calls on a counter whose signing succeeded
SignedSends(n) == Len(signedLog[n])
Counter(n) == NonceOf(n)

\* the counters never decrease once initialized, and never go back to null
CountersNeverDecrease ==
    [][\A n \in Networks :
          Counter(n) # Null => Counter(n)' # Null /\ Counter(n)' >= Counter(n)]_vars

\* a getGasPrice, estimateGas or getBalance call leaves both counters alone
QueriesLeaveCounters ==
    [][(gasCall' # gasCall \/ estCall' # estCall \/ balanceCall' # balanceCall)
          => UNCHANGED <<currentNonce, sepoliaNonce>>]_vars

\* C30 as stated: an initialized counter equals the fetched count plus the number of
\* sendTransaction calls whose signing succeeded since the fetch.
C30_FetchedPlusSignedSends ==
    \A n \in Networks :
        Counter(n) # Null => Counter(n) = firstFetched[n] + SignedSends(n)

\* C30: over awaited getNonce, incrementNonce, sendTransaction, getGasPrice,
\* estimateGas and getBalance calls without resetNonce, a counter never decreases once
\* initialized and always equals the fetched count plus the number of sendTransaction
\* calls whose signing succeeded plus the number of incrementNonce calls a caller made
\* on the initialized counter since the fetch; getGasPrice, estimateGas and getBalance
\* never change either counter.
C30_FetchedPlusSignedPlusDirect ==
    /\ [](\A n \in Networks :
            /\ resets[n] = 0
            /\ Counter(n) # Null =>
                  /\ firstFetched[n] # Null
                  /\ Counter(n) = firstFetched[n] + SignedSends(n) + track[n].direct
            /\ Counter(n) = Null =>
                  firstFetched[n] = Null /\ SignedSends(n) = 0 /\ track[n].direct = 0)
    /\ CountersNeverDecrease
    /\ QueriesLeaveCounters

\* a counter fetched by a sendTransaction whose signing succeeded, then incremented by
\* a caller, and a getBalance call whose query failed: the counter is two above the
\* fetched count
C30_Witness ==
    \E n \in Networks :
        /\ Counter(n) = firstFetched[n] + 2
        /\ SignedSends(n) = 1
        /\ track[n].direct = 1
        /\ balanceCall.made /\ ~balanceCall.queryOk
====
